---- MODULE Spec2Model ----
(***************************************************************************)
(* A model of the WSO records scrapers (memohnsen/wso_sheets_scraper):     *)
(* the reconciliation loop that diffs a scraped batch against the          *)
(* wso_records table, the record consolidator, and the layout parsers.     *)
(*                                                                         *)
(* Cell text is modelled as a sequence of one-character strings, so that   *)
(* strip(), lower(), "in", split() and the numeric conversions are         *)
(* computed the way the Python code computes them.                         *)
(***************************************************************************)
EXTENDS Integers, Sequences, FiniteSets, TLC

VARIABLES
    \* ---- one run of a scraper (run / upsert_records / dry-run comparison)
    scraper,         \* which scraper class runs
    dry_run,         \* the --dry-run flag handed to run()
    env_supabase,    \* SUPABASE_URL and SUPABASE_KEY are both set
    env_discord,     \* DISCORD_WEBHOOK_URL is set
    pc,              \* position of run()
    store,           \* the wso_records table: a set of rows
    records,         \* the list run() hands to reconciliation
    idx,             \* 1-based position of the reconciliation loop in records
    existing_record, \* the row the current iteration fetched (NoRow when none)
    changes,         \* self.changes / the returned inserted and updated lists
    comparison,      \* to_insert / to_update / unchanged of the dry-run comparison
    writes,          \* the insert/update calls issued to the store, in order
    notifications,   \* number of webhook posts attempted
    \* ---- _consolidate_records called on a list and on a reordering of it
    cons_pc,         \* "input", "first" (one call made), "second" (both made)
    all_records,     \* the list handed to _consolidate_records
    reordered,       \* the same records in another order
    consolidated,    \* _consolidate_records(all_records)
    consolidated2,   \* _consolidate_records(reordered)
    \* ---- one scan of a row-scanning parser over a tab or a document
    layout,          \* which parser scans: "vertical" or "table"
    tab_age_category, \* the age_category argument of the parser
    tab_gender,      \* the gender argument of the parser
    all_values,      \* the rows handed to the loop body so far (table by table
                     \* for the table-document parser)
    scan,            \* the locals of the scan
    parse_pc,        \* "scan" while rows are read, "done" once returned
    \* ---- scrape_sheet of a side-by-side scraper, up to the hand-over in run()
    sheet_scraper,   \* "florida" or "newjersey"
    sheet_pc,        \* "tabs" (between tabs), "rows" (in a tab), "returned"
    tab_index,       \* how many tabs of self.tabs the loop has taken
    rows,            \* the rows of the tab being parsed
    row_i,           \* 0-based index of the next row of the tab
    tab_state,       \* records and last weights of _parse_side_by_side
    sheet_records,   \* all_records of scrape_sheet
    rows_fetched,    \* rows fetched so far, over all tabs
    scraped          \* what scrape_sheet returned to run()

runVars == <<scraper, dry_run, env_supabase, env_discord, pc, store, records, idx,
             existing_record, changes, comparison, writes, notifications>>

consVars == <<cons_pc, all_records, reordered, consolidated, consolidated2>>

parseVars == <<layout, tab_age_category, tab_gender, all_values, scan, parse_pc>>

sheetVars == <<sheet_scraper, sheet_pc, tab_index, rows, row_i, tab_state,
               sheet_records, rows_fetched, scraped>>

vars == <<runVars, consVars, parseVars, sheetVars>>

(* What the actions of one part leave alone: the variables of the others. *)
notRunVars == <<consVars, parseVars, sheetVars>>
notConsVars == <<runVars, parseVars, sheetVars>>
notParseVars == <<runVars, consVars, sheetVars>>
notSheetVars == <<runVars, consVars, parseVars>>

-----------------------------------------------------------------------------
(* Python's None, for a lift field that holds no record. *)
None == -1

(* Bounds of the model. *)
MaxBatch == 2
MaxGroup == 3
MaxRows == 5
MaxTableRows == 4
MaxSheetRows == 3

-----------------------------------------------------------------------------
(* Text helpers: a text is a sequence of one-character strings.            *)

(* str.strip() with no argument: whitespace off both ends. *)
RECURSIVE LStrip(_)
LStrip(s) == IF s # <<>> /\ Head(s) = " " THEN LStrip(Tail(s)) ELSE s

RECURSIVE RStrip(_)
RStrip(s) ==
    IF s # <<>> /\ s[Len(s)] = " " THEN RStrip(SubSeq(s, 1, Len(s) - 1)) ELSE s

Strip(s) == RStrip(LStrip(s))

UpperLetters == <<"A", "B", "C", "D", "E", "F", "G", "H", "I", "J", "K", "L", "M", "N", "O", "P", "Q", "R", "S", "T", "U", "V", "W", "X", "Y", "Z">>
LowerLetters == <<"a", "b", "c", "d", "e", "f", "g", "h", "i", "j", "k", "l", "m", "n", "o", "p", "q", "r", "s", "t", "u", "v", "w", "x", "y", "z">>

LowerChar(c) ==
    IF \E k \in 1..Len(UpperLetters) : UpperLetters[k] = c
    THEN LowerLetters[CHOOSE k \in 1..Len(UpperLetters) : UpperLetters[k] = c]
    ELSE c

UpperChar(c) ==
    IF \E k \in 1..Len(LowerLetters) : LowerLetters[k] = c
    THEN UpperLetters[CHOOSE k \in 1..Len(LowerLetters) : LowerLetters[k] = c]
    ELSE c

(* str.lower() and str.upper() *)
Lower(s) == [k \in 1..Len(s) |-> LowerChar(s[k])]
Upper(s) == [k \in 1..Len(s) |-> UpperChar(s[k])]

(* The positions where sub occurs in s. *)
Occurrences(s, sub) ==
    { k \in 1..(Len(s) - Len(sub) + 1) : SubSeq(s, k, k + Len(sub) - 1) = sub }

(* sub in s *)
Contains(s, sub) == Occurrences(s, sub) # {}

(* s.startswith(sub), s.endswith(sub) *)
StartsWith(s, sub) == Len(sub) <= Len(s) /\ SubSeq(s, 1, Len(sub)) = sub
EndsWith(s, sub) ==
    Len(sub) <= Len(s) /\ SubSeq(s, Len(s) - Len(sub) + 1, Len(s)) = sub

Min(S) == CHOOSE x \in S : \A y \in S : x <= y

(* s.split(sep) for a non-empty separator *)
RECURSIVE SplitBy(_, _)
SplitBy(s, sep) ==
    IF Occurrences(s, sep) = {} THEN << s >>
    ELSE LET k == Min(Occurrences(s, sep))
         IN << SubSeq(s, 1, k - 1) >> \o SplitBy(SubSeq(s, k + Len(sep), Len(s)), sep)

(* s.split(): the words between runs of whitespace *)
Words(s) == SelectSeq(SplitBy(s, << " " >>), LAMBDA w : w # <<>>)

(* s.replace(c, "") for a one-character c *)
Remove(s, c) == SelectSeq(s, LAMBDA x : x # c)

DigitChars == <<"0", "1", "2", "3", "4", "5", "6", "7", "8", "9">>

IsDigitChar(c) == \E k \in 1..Len(DigitChars) : DigitChars[k] = c

DigitValue(c) == (CHOOSE k \in 1..Len(DigitChars) : DigitChars[k] = c) - 1

(* str.isdigit(): non-empty and every character a digit *)
isdigit(s) == s # <<>> /\ \A k \in 1..Len(s) : IsDigitChar(s[k])

(* The number a string of digits denotes. *)
RECURSIVE ToNat(_)
ToNat(s) ==
    IF s = <<>> THEN 0
    ELSE 10 * ToNat(SubSeq(s, 1, Len(s) - 1)) + DigitValue(s[Len(s)])

(* The end of the run of digits that starts at position a. *)
RECURSIVE DigitRunEnd(_, _)
DigitRunEnd(s, a) ==
    IF a < Len(s) /\ IsDigitChar(s[a + 1]) THEN DigitRunEnd(s, a + 1) ELSE a

(* The first position at or after k that holds no whitespace. *)
RECURSIVE SkipSpaces(_, _)
SkipSpaces(s, k) ==
    IF k <= Len(s) /\ s[k] = " " THEN SkipSpaces(s, k + 1) ELSE k

(* The positions where a run of digits starts. *)
DigitRunStarts(s) ==
    { a \in 1..Len(s) : IsDigitChar(s[a]) /\ (a = 1 \/ ~IsDigitChar(s[a - 1])) }

(* re.search(r'(\d+)\s*-\s*(\d+)', s): the starts of the digit runs that a  *)
(* hyphen and a second digit run follow; the leftmost is the match.        *)
RangeMatches(s) ==
    { a \in DigitRunStarts(s) :
        LET d == SkipSpaces(s, DigitRunEnd(s, a) + 1)
        IN /\ d <= Len(s) /\ s[d] = "-"
           /\ SkipSpaces(s, d + 1) <= Len(s)
           /\ IsDigitChar(s[SkipSpaces(s, d + 1)]) }

RangeLower(s) ==
    LET a == Min(RangeMatches(s)) IN SubSeq(s, a, DigitRunEnd(s, a))

RangeUpper(s) ==
    LET a == Min(RangeMatches(s))
        b == SkipSpaces(s, SkipSpaces(s, DigitRunEnd(s, a) + 1) + 1)
    IN SubSeq(s, b, DigitRunEnd(s, b))

(* re.search(r'(\d+)\s*kg', s) *)
KgMatches(s) ==
    { a \in DigitRunStarts(s) :
        LET d == SkipSpaces(s, DigitRunEnd(s, a) + 1)
        IN d + 1 <= Len(s) /\ SubSeq(s, d, d + 1) = <<"k", "g">> }

KgNumber(s) == LET a == Min(KgMatches(s)) IN SubSeq(s, a, DigitRunEnd(s, a))

(* A text variable that holds Python's None: no cell text equals it,       *)
(* because a cell is made of one-character strings.                        *)
NoText == << "None" >>

(* Python truthiness of an Optional[str]: neither None nor "". *)
Truthy(t) == t # NoText /\ t # <<>>
S_81 == <<"8", "1">>
S_81plus == <<"8", "1", "+">>

-----------------------------------------------------------------------------
(* Canonical records and the wso_records table.                            *)

LiftFields == {"snatch_record", "cj_record", "total_record"}

KeyOf(r) == <<r.wso, r.age_category, r.gender, r.weight_class>>

MkRecord(wso, age, gender, wc, sn, cj, tot) ==
    [wso |-> wso, age_category |-> age, gender |-> gender, weight_class |-> wc,
     snatch_record |-> sn, cj_record |-> cj, total_record |-> tot]

(* The lift values the scraped batch and the stored rows are drawn from. *)
LiftTriples ==
    { <<None, None, None>>, <<100, None, None>>, <<100, 120, 220>>, <<105, 120, 220>> }

WeightClasses == { S_81, S_81plus }

RunRecords ==
    { MkRecord("Florida", "Senior", "Men", wc, t[1], t[2], t[3]) :
        wc \in WeightClasses, t \in LiftTriples }

(* A stored row is a record plus the id the store assigned at insert. *)
MkRow(id, r) ==
    [id |-> id, wso |-> r.wso, age_category |-> r.age_category, gender |-> r.gender,
     weight_class |-> r.weight_class, snatch_record |-> r.snatch_record,
     cj_record |-> r.cj_record, total_record |-> r.total_record]

NoRow == [id |-> 0]

Max(S) == CHOOSE x \in S : \A y \in S : y <= x

NewId(table) == IF table = {} THEN 1 ELSE 1 + Max({ row.id : row \in table })

(* table("wso_records").select("*").match({wso, age_category, gender, weight_class}) *)
Select(table, record) == { row \in table : KeyOf(row) = KeyOf(record) }

(* table("wso_records").insert(record) *)
Insert(table, record) == table \cup { MkRow(NewId(table), record) }

(* table("wso_records").update(record).eq("id", record_id) *)
Update(table, record, record_id) ==
    { IF row.id = record_id THEN MkRow(row.id, record) ELSE row : row \in table }

(* The tables a run can start from: the code inserts a key only when the   *)
(* select finds no row for it, so a table holds at most one row per key.   *)
StoredRows ==
    { MkRow(IF r.weight_class = S_81 THEN 1 ELSE 2, r) : r \in RunRecords }

InitialStores ==
    { t \in SUBSET StoredRows : \A a, b \in t : KeyOf(a) = KeyOf(b) => a = b }

UniqueKeys(list) ==
    \A m, n \in 1..Len(list) : KeyOf(list[m]) = KeyOf(list[n]) => m = n

-----------------------------------------------------------------------------
(* The record consolidator of the New Jersey scraper.                      *)

(* grouped = defaultdict(list): the keys in order of first appearance. *)
RECURSIVE GroupKeys(_)
GroupKeys(list) ==
    IF list = <<>> THEN <<>>
    ELSE LET init == SubSeq(list, 1, Len(list) - 1)
             keys == GroupKeys(init)
             key  == KeyOf(list[Len(list)])
         IN IF \E k \in 1..Len(keys) : keys[k] = key THEN keys ELSE Append(keys, key)

(* grouped[key]: the records of the key, in input order. *)
GroupRecords(list, key) == SelectSeq(list, LAMBDA r : KeyOf(r) = key)

(* MaxOrNone taking the smallest value. *)
MaxOrNone_Min(group_records, field) ==
    LET values == { group_records[k][field] : k \in 1..Len(group_records) } \ { None }
    IN IF values = {} THEN None ELSE CHOOSE x \in values : \A y \in values : x <= y

(* MaxOrNone taking the first non-None value of the group. *)
MaxOrNone_First(group_records, field) ==
    LET present == SelectSeq(group_records, LAMBDA r : r[field] # None)
    IN IF present = <<>> THEN None ELSE present[1][field]

(* max(values) if values else None, over the non-None values of a field. *)
MaxOrNone(group_records, field) ==
    LET values == { group_records[k][field] : k \in 1..Len(group_records) } \ { None }
    IN IF values = {} THEN None ELSE Max(values)

MergeGroup(key, group_records) ==
    IF Len(group_records) = 1
    THEN group_records[1]
    ELSE MkRecord(key[1], key[2], key[3], key[4],
                  MaxOrNone(group_records, "snatch_record"),
                  MaxOrNone(group_records, "cj_record"),
                  MaxOrNone(group_records, "total_record"))

_consolidate_records(list) ==
    LET keys == GroupKeys(list)
    IN [k \in 1..Len(keys) |-> MergeGroup(keys[k], GroupRecords(list, keys[k]))]

-----------------------------------------------------------------------------
(* One run of a scraper: run(), upsert_records / upsert_to_supabase and    *)
(* the dry-run comparison.                                                 *)

Scrapers == { "vertical", "flat", "florida", "newjersey", "tnky", "pawv", "newengland" }

(* The scrapers whose run() takes a dry_run flag. *)
DryRunScrapers == { "florida", "newjersey", "tnky", "pawv", "newengland" }

(* The scrapers whose reconciliation returns the inserted/updated lists     *)
(* (upsert_to_supabase) instead of filling self.changes (upsert_records).   *)
ReturnListScrapers == { "pawv", "newengland" }

(* The scrapers whose single source fetch raises out of run(). *)
FailFastScrapers == { "flat", "tnky", "pawv", "newengland" }

BatchesUpTo(n) == UNION { [1..k -> RunRecords] : k \in 0..n }

(* What scrape_sheet / scrape_all_tabs / scrape_pdf can return. *)
ScrapedBatches(s) ==
    IF s = "newjersey" THEN { _consolidate_records(b) : b \in BatchesUpTo(MaxBatch) }
    ELSE IF s = "flat" THEN { b \in BatchesUpTo(MaxBatch) : UniqueKeys(b) }
    ELSE BatchesUpTo(MaxBatch)

InitRun ==
    /\ scraper \in Scrapers
    /\ dry_run \in (IF scraper \in DryRunScrapers THEN BOOLEAN ELSE { FALSE })
    /\ env_supabase \in BOOLEAN
    /\ env_discord \in BOOLEAN
    /\ pc = "start"
    /\ store \in InitialStores
    /\ records = <<>>
    /\ idx = 1
    /\ existing_record = NoRow
    /\ changes = [inserted |-> <<>>, updated |-> <<>>]
    /\ comparison = [to_insert |-> <<>>, to_update |-> <<>>, unchanged |-> <<>>]
    /\ writes = <<>>
    /\ notifications = 0

(* setup_supabase_client raises without its two variables; setup_discord   *)
(* raises without the webhook except in the PA/WV and New England          *)
(* scrapers, and is not called at all in a dry run.                        *)
SetupSucceeds_StorageOnly == env_supabase

SetupSucceeds ==
    /\ env_supabase
    /\ (dry_run \/ scraper \in ReturnListScrapers \/ env_discord)

Setup ==
    /\ pc = "start"
    /\ pc' = IF SetupSucceeds THEN "scrape" ELSE "failed"
    /\ UNCHANGED <<notRunVars, scraper, dry_run, env_supabase, env_discord, store, records, idx,
                   existing_record, changes, comparison, writes, notifications>>

Scrape ==
    /\ pc = "scrape"
    /\ records' \in ScrapedBatches(scraper)
    /\ pc' = "reconcile"
    /\ UNCHANGED <<notRunVars, scraper, dry_run, env_supabase, env_discord, store, idx,
                   existing_record, changes, comparison, writes, notifications>>

ScrapeFails ==
    /\ pc = "scrape"
    /\ scraper \in FailFastScrapers
    /\ pc' = "failed"
    /\ UNCHANGED <<notRunVars, scraper, dry_run, env_supabase, env_discord, store, records, idx,
                   existing_record, changes, comparison, writes, notifications>>

(* FieldChange with old and new exchanged. *)
FieldChange_Swapped(existing, record, field) ==
    IF existing[field] # record[field]
    THEN field :> [old |-> record[field], new |-> existing[field]]
    ELSE <<>>

(* if existing_record.get(field) != record.get(field):                      *)
(*     changes[field] = {"old": ..., "new": ...}                            *)
FieldChange(existing, record, field) ==
    IF existing[field] # record[field]
    THEN field :> [old |-> existing[field], new |-> record[field]]
    ELSE <<>>

(* The changes dict upsert_records builds with its three if statements. *)
ChangesOf(existing, record) ==
    FieldChange(existing, record, "snatch_record")
        @@ FieldChange(existing, record, "cj_record")
        @@ FieldChange(existing, record, "total_record")

(* Changed with a truthiness test in place of the comparison with None:    *)
(* a fresh None never counts as a change.                                   *)
Changed_IgnoresNone(db_record, record) ==
    \E field \in LiftFields :
        record[field] # None /\ db_record[field] # record[field]

(* for field in [...]: if db_record.get(field) != record.get(field): changed = True *)
Changed(db_record, record) ==
    \E field \in LiftFields : db_record[field] # record[field]

(* The changes list of the dry-run comparison: one entry per differing      *)
(* field, in the order snatch_record, cj_record, total_record.             *)
ChangeList(db_record, record) ==
    LET entry(field) == IF db_record[field] # record[field]
                        THEN << <<field, db_record[field], record[field]>> >>
                        ELSE <<>>
    IN entry("snatch_record") \o entry("cj_record") \o entry("total_record")

UpdatedEntry(record, changes_) ==
    [wso |-> record.wso, age_category |-> record.age_category, gender |-> record.gender,
     weight_class |-> record.weight_class, changes |-> changes_]

(* UpsertIteration as a pure diff: the lists are filled, nothing is written. *)
UpsertIteration_PureDiff(record) ==
    LET existing == Select(store, record)
    IN /\ UNCHANGED <<store, writes>>
       /\ IF existing # {}
          THEN \E row \in existing :
                 /\ existing_record' = row
                 /\ IF Changed(row, record)
                    THEN changes' = [changes EXCEPT !.updated = Append(@, record)]
                    ELSE UNCHANGED changes
          ELSE /\ existing_record' = NoRow
               /\ changes' = [changes EXCEPT !.inserted = Append(@, record)]

(* One iteration of the loop of upsert_records (self.changes) or of         *)
(* upsert_to_supabase (returned lists).                                     *)
UpsertIteration(record) ==
    LET existing == Select(store, record)
    IN IF existing # {}
       THEN \E row \in existing :
              /\ existing_record' = row
              /\ IF scraper \in ReturnListScrapers
                 THEN IF Changed(row, record)
                      THEN /\ store' = Update(store, record, row.id)
                           /\ writes' = Append(writes, [op |-> "update", id |-> row.id, record |-> record])
                           /\ changes' = [changes EXCEPT !.updated = Append(@, record)]
                      ELSE UNCHANGED <<store, writes, changes>>
                 ELSE IF ChangesOf(row, record) # <<>>
                      THEN /\ store' = Update(store, record, row.id)
                           /\ writes' = Append(writes, [op |-> "update", id |-> row.id, record |-> record])
                           /\ changes' = [changes EXCEPT
                                 !.updated = Append(@, UpdatedEntry(record, ChangesOf(row, record)))]
                      ELSE UNCHANGED <<store, writes, changes>>
       ELSE /\ existing_record' = NoRow
            /\ store' = Insert(store, record)
            /\ writes' = Append(writes, [op |-> "insert", id |-> 0, record |-> record])
            /\ changes' = [changes EXCEPT !.inserted = Append(@, record)]

(* upsert_records(records) as a whole, from a given table and with fresh    *)
(* change lists: the table it leaves and the records it inserted and       *)
(* updated, in order.  existing.data[0] is the one row of the key.         *)
RECURSIVE upsert_records(_, _, _)
upsert_records(table, batch, lists) ==
    IF batch = << >>
    THEN [store |-> table, inserted |-> lists.inserted, updated |-> lists.updated]
    ELSE LET record == Head(batch)
             existing == Select(table, record)
             row == CHOOSE r \in existing : TRUE
         IN IF existing # {}
            THEN IF Changed(row, record)
                 THEN upsert_records(Update(table, record, row.id), Tail(batch),
                                     [lists EXCEPT !.updated = Append(@, record)])
                 ELSE upsert_records(table, Tail(batch), lists)
            ELSE upsert_records(Insert(table, record), Tail(batch),
                                [lists EXCEPT !.inserted = Append(@, record)])

(* One iteration of the loop of _dry_run_comparison / dry_run_compare; only *)
(* dry_run_compare keeps the unchanged list.                                *)
CompareIteration(record) ==
    LET existing == Select(store, record)
    IN IF existing # {}
       THEN \E db_record \in existing :
              /\ existing_record' = db_record
              /\ IF Changed(db_record, record)
                 THEN comparison' = [comparison EXCEPT !.to_update =
                        Append(@, [record |-> record, changes |-> ChangeList(db_record, record)])]
                 ELSE IF scraper \in ReturnListScrapers
                      THEN comparison' = [comparison EXCEPT !.unchanged = Append(@, record)]
                      ELSE UNCHANGED comparison
       ELSE /\ existing_record' = NoRow
            /\ comparison' = [comparison EXCEPT !.to_insert = Append(@, record)]

(* ReconcileIteration without the dry_run test: the upsert always runs. *)
ReconcileIteration_NoFlag(record) ==
    UpsertIteration(record) /\ UNCHANGED comparison

(* run(): if dry_run: the comparison, else: the upsert. *)
ReconcileIteration(record) ==
    IF dry_run
    THEN CompareIteration(record) /\ UNCHANGED <<store, writes, changes>>
    ELSE UpsertIteration(record) /\ UNCHANGED comparison

ReconcileStep ==
    /\ pc = "reconcile"
    /\ idx <= Len(records)
    /\ ReconcileIteration(records[idx])
    /\ idx' = idx + 1
    /\ UNCHANGED <<notRunVars, scraper, dry_run, env_supabase, env_discord, pc, records, notifications>>

(* send_discord_notification: the PA/WV and New England scrapers skip the   *)
(* post when no webhook is configured; the others always attempt it.       *)
PostsNotification == scraper \notin ReturnListScrapers \/ env_discord

(* The end of run() after the reconciliation loop. *)
FinishRun ==
    /\ pc = "reconcile"
    /\ idx > Len(records)
    /\ pc' = "done"
    /\ notifications' = IF ~dry_run /\ PostsNotification
                        THEN notifications + 1 ELSE notifications
    /\ UNCHANGED <<notRunVars, scraper, dry_run, env_supabase, env_discord, store, records, idx,
                   existing_record, changes, comparison, writes>>

NextRun ==
    \/ Setup
    \/ Scrape
    \/ ScrapeFails
    \/ ReconcileStep
    \/ FinishRun

RunIdle ==
    /\ scraper = "florida" /\ dry_run = FALSE
    /\ env_supabase = TRUE /\ env_discord = TRUE
    /\ pc = "idle" /\ store = {} /\ records = <<>> /\ idx = 1
    /\ existing_record = NoRow
    /\ changes = [inserted |-> <<>>, updated |-> <<>>]
    /\ comparison = [to_insert |-> <<>>, to_update |-> <<>>, unchanged |-> <<>>]
    /\ writes = <<>> /\ notifications = 0

-----------------------------------------------------------------------------
(* _consolidate_records applied to a list of records and to a reordering   *)
(* of the same records.                                                    *)

(* The records of the New Jersey docstring example and its neighbours:     *)
(* partial records of two athletes, and full records that differ per lift. *)
GroupLifts ==
    { <<None, None, None>>, <<90, None, None>>, <<None, 117, 203>>,
      <<95, 117, None>>, <<90, 120, 203>> }

GroupRecordsDomain ==
    { MkRecord("New Jersey", "Senior", "Men", wc, t[1], t[2], t[3]) :
        wc \in WeightClasses, t \in GroupLifts }

Orderings(n) ==
    { f \in [1..n -> 1..n] : \A a, b \in 1..n : f[a] = f[b] => a = b }

InitCons ==
    /\ cons_pc = "input"
    /\ all_records \in UNION { [1..k -> GroupRecordsDomain] : k \in 0..MaxGroup }
    /\ reordered = <<>>
    /\ consolidated = <<>>
    /\ consolidated2 = <<>>

Consolidate ==
    /\ cons_pc = "input"
    /\ consolidated' = _consolidate_records(all_records)
    /\ cons_pc' = "first"
    /\ UNCHANGED <<notConsVars, all_records, reordered, consolidated2>>

ConsolidateReordered ==
    /\ cons_pc = "first"
    /\ \E f \in Orderings(Len(all_records)) :
          /\ reordered' = [k \in 1..Len(all_records) |-> all_records[f[k]]]
          /\ consolidated2' = _consolidate_records(reordered')
    /\ cons_pc' = "second"
    /\ UNCHANGED <<notConsVars, all_records, consolidated>>

NextCons ==
    \/ Consolidate
    \/ ConsolidateReordered

ConsIdle ==
    /\ cons_pc = "idle" /\ all_records = <<>> /\ reordered = <<>>
    /\ consolidated = <<>> /\ consolidated2 = <<>>

-----------------------------------------------------------------------------
(* The row-scanning parsers: the locals of one scan, kept in scan.         *)
(* read_unset and emitted_unset are history: the pending slots whose value *)
(* was read while the weight class or the age category was unset, and      *)
(* whether a record carrying such a value has been appended.               *)

wso_name == "Ohio"

LiftSlots == { "current_snatch", "current_cj", "current_total" }

ScanStart(age, gender_, records_, emitted_) ==
    [current_age_category |-> age, current_gender |-> gender_,
     current_weight_class |-> NoText,
     current_snatch |-> None, current_cj |-> None, current_total |-> None,
     records |-> records_, read_unset |-> {}, emitted_unset |-> emitted_]

Unset(st) ==
    ~Truthy(st.current_weight_class) \/ ~Truthy(st.current_age_category)

(* current_<lift> = value *)
StoreLift(st, slot, value) ==
    [st EXCEPT ![slot] = value,
               !.read_unset = IF value # None /\ Unset(st)
                              THEN @ \cup { slot } ELSE @ \ { slot }]

(* current_snatch = current_cj = current_total = None *)
ClearLifts(st) ==
    [st EXCEPT !.current_snatch = None, !.current_cj = None,
               !.current_total = None, !.read_unset = {}]

(* records.append({...}) from the current locals *)
AppendRecord(st) ==
    [st EXCEPT !.records =
                   Append(@, MkRecord(wso_name, st.current_age_category,
                                      st.current_gender, st.current_weight_class,
                                      st.current_snatch, st.current_cj,
                                      st.current_total)),
               !.emitted_unset = @ \/ st.read_unset # {}]

-----------------------------------------------------------------------------
(* scraper.py: the vertical single-column parser, _parse_tab_data.         *)

save_current_record(st) ==
    IF Truthy(st.current_weight_class) /\ Truthy(st.current_age_category)
    THEN AppendRecord(st)
    ELSE st

parse_age_subdivision_UpperBound(text_, age_category) ==
    LET text == Strip(text_)
        by_hyphen == SplitBy(text, <<"-">>)
        by_spaced == SplitBy(text, <<" ", "-", " ">>)
        masters == age_category = <<"M", "a", "s", "t", "e", "r", "s">>
    IN IF Contains(Lower(text), <<"a", "n", "d", " ", "u", "n", "d", "e", "r">>)
       THEN <<"U">> \o Words(text)[1]
       ELSE IF masters /\ Contains(text, <<"-">>) /\ Len(by_hyphen) = 2
       THEN <<"M", "a", "s", "t", "e", "r", "s", " ">> \o Strip(by_hyphen[2])
       ELSE IF masters /\ Contains(text, <<" ", "-", " ">>) /\ Len(by_spaced) = 2
       THEN <<"M", "a", "s", "t", "e", "r", "s", " ">> \o Strip(by_spaced[2])
       ELSE IF ~masters /\ Contains(text, <<"-">>) /\ Len(by_hyphen) = 2
       THEN <<"U">> \o Strip(by_hyphen[2])
       ELSE IF ~masters /\ Contains(text, <<" ", "-", " ">>) /\ Len(by_spaced) = 2
       THEN <<"U">> \o Strip(by_spaced[2])
       ELSE IF Lower(text) = <<"t", "o", "t", "a", "l">>
       THEN <<"T", "o", "t", "a", "l">>
       ELSE text

parse_age_subdivision(text_, age_category) ==
    LET text == Strip(text_)
        by_hyphen == SplitBy(text, <<"-">>)
        by_spaced == SplitBy(text, <<" ", "-", " ">>)
        masters == age_category = <<"M", "a", "s", "t", "e", "r", "s">>
    IN IF Contains(Lower(text), <<"a", "n", "d", " ", "u", "n", "d", "e", "r">>)
       THEN <<"U">> \o Words(text)[1]
       ELSE IF masters /\ Contains(text, <<"-">>) /\ Len(by_hyphen) = 2
       THEN <<"M", "a", "s", "t", "e", "r", "s", " ">> \o Strip(by_hyphen[1])
       ELSE IF masters /\ Contains(text, <<" ", "-", " ">>) /\ Len(by_spaced) = 2
       THEN <<"M", "a", "s", "t", "e", "r", "s", " ">> \o Strip(by_spaced[1])
       ELSE IF ~masters /\ Contains(text, <<"-">>) /\ Len(by_hyphen) = 2
       THEN <<"U">> \o Strip(by_hyphen[2])
       ELSE IF ~masters /\ Contains(text, <<" ", "-", " ">>) /\ Len(by_spaced) = 2
       THEN <<"U">> \o Strip(by_spaced[2])
       ELSE IF Lower(text) = <<"t", "o", "t", "a", "l">>
       THEN <<"T", "o", "t", "a", "l">>
       ELSE text

(* float(row[3].strip()), None on ValueError.  The cells of the model hold *)
(* no sign, decimal point or exponent, so a cell converts exactly when it  *)
(* is a string of digits.                                                  *)
ParseFloat(s) == IF isdigit(s) THEN ToNat(s) ELSE None

(* The first row when it is a merged header such as                        *)
(* "... Lift 13 and Under 36 kg".                                          *)
MergedHeader(st, first_col) ==
    LET lower == Lower(first_col)
        words == Words(Strip(SplitBy(lower, <<"a", "n", "d", " ", "u", "n", "d", "e", "r">>)[1]))
        digit_words == { k \in 1..Len(words) : isdigit(words[k]) }
        st1 == IF Contains(lower, <<"a", "n", "d", " ", "u", "n", "d", "e", "r">>) /\ digit_words # {}
               THEN [st EXCEPT !.current_age_category =
                                   <<"U">> \o words[Max(digit_words)]]
               ELSE st
        st2 == IF RangeMatches(first_col) # {}
               THEN [st1 EXCEPT !.current_age_category =
                                    IF ToNat(RangeLower(first_col)) >= 35
                                    THEN <<"M", "a", "s", "t", "e", "r", "s", " ">> \o RangeLower(first_col)
                                    ELSE <<"U">> \o RangeUpper(first_col)]
               ELSE st1
    IN IF Contains(lower, <<"k", "g">>) /\ KgMatches(lower) # {}
       THEN [st2 EXCEPT !.current_weight_class = KgNumber(lower) \o <<" ", "k", "g">>]
       ELSE st2

HeaderWords ==
    { <<"l", "i", "f", "t">>, <<"a", "t", "h", "l", "e", "t", "e">>, <<"t", "e", "a", "m">>, <<"w", "e", "i", "g", "h", "t">>, <<"d", "a", "t", "e">>, <<"m", "e", "e", "t">>, <<"l", "o", "c", "a", "t", "i", "o", "n">> }

CleanAndJerkWords == { <<"c", "l", "e", "a", "n", " ", "&", " ", "j", "e", "r", "k">>, <<"c", "l", "e", "a", "n", " ", "a", "n", "d", " ", "j", "e", "r", "k">>, <<"c", "&", "j">> }

VerticalLiftRow_SavesBeforeTotal(st, row, lift_type) ==
    LET weight_value == IF Len(row) > 3 /\ Strip(row[4]) # <<>>
                        THEN ParseFloat(Strip(row[4]))
                        ELSE None
    IN IF lift_type = <<"s", "n", "a", "t", "c", "h">>
       THEN StoreLift(st, "current_snatch", weight_value)
       ELSE IF lift_type \in CleanAndJerkWords
       THEN StoreLift(st, "current_cj", weight_value)
       ELSE [ClearLifts(save_current_record(st))
               EXCEPT !.current_weight_class = NoText]

VerticalLiftRow_KeepsWeightClass(st, row, lift_type) ==
    LET weight_value == IF Len(row) > 3 /\ Strip(row[4]) # <<>>
                        THEN ParseFloat(Strip(row[4]))
                        ELSE None
    IN IF lift_type = <<"s", "n", "a", "t", "c", "h">>
       THEN StoreLift(st, "current_snatch", weight_value)
       ELSE IF lift_type \in CleanAndJerkWords
       THEN StoreLift(st, "current_cj", weight_value)
       ELSE ClearLifts(save_current_record(
                StoreLift(st, "current_total", weight_value)))

(* A lift row: the value of column D goes into the slot the row names;     *)
(* a Total row then saves the record and clears the block.                 *)
VerticalLiftRow(st, row, lift_type) ==
    LET weight_value == IF Len(row) > 3 /\ Strip(row[4]) # <<>>
                        THEN ParseFloat(Strip(row[4]))
                        ELSE None
    IN IF lift_type = <<"s", "n", "a", "t", "c", "h">>
       THEN StoreLift(st, "current_snatch", weight_value)
       ELSE IF lift_type \in CleanAndJerkWords
       THEN StoreLift(st, "current_cj", weight_value)
       ELSE [ClearLifts(save_current_record(
                 StoreLift(st, "current_total", weight_value)))
               EXCEPT !.current_weight_class = NoText]

VerticalRow_KeepsPendingLifts(st, row, i, age_category) ==
    LET first_col == IF Len(row) > 0 THEN Strip(row[1]) ELSE <<>>
        second_col == IF Len(row) > 1 THEN Strip(row[2]) ELSE <<>>
        lower == Lower(first_col)
        parsed == parse_age_subdivision(first_col, age_category)
    IN IF row = <<>> \/ first_col = <<>>
       THEN st
       ELSE IF i = 0 /\ Contains(lower, <<"l", "i", "f", "t">>)
       THEN MergedHeader(st, first_col)
       ELSE IF lower \in HeaderWords
       THEN st
       ELSE IF lower \in { <<"s", "n", "a", "t", "c", "h">>, <<"t", "o", "t", "a", "l">> } \cup CleanAndJerkWords
       THEN VerticalLiftRow(st, row, lower)
       ELSE IF Contains(lower, <<"k", "g">>)
       THEN [save_current_record(st)
               EXCEPT !.current_weight_class = first_col]
       ELSE IF second_col = <<>> /\ Truthy(parsed) /\ parsed # first_col
       THEN [st EXCEPT !.current_age_category = parsed,
                       !.current_weight_class = NoText]
       ELSE st

(* One iteration of the loop over all_values; i is the 0-based row index.  *)
VerticalRow(st, row, i, age_category) ==
    LET first_col == IF Len(row) > 0 THEN Strip(row[1]) ELSE <<>>
        second_col == IF Len(row) > 1 THEN Strip(row[2]) ELSE <<>>
        lower == Lower(first_col)
        parsed == parse_age_subdivision(first_col, age_category)
    IN IF row = <<>> \/ first_col = <<>>
       THEN st
       ELSE IF i = 0 /\ Contains(lower, <<"l", "i", "f", "t">>)
       THEN MergedHeader(st, first_col)
       ELSE IF lower \in HeaderWords
       THEN st
       ELSE IF lower \in { <<"s", "n", "a", "t", "c", "h">>, <<"t", "o", "t", "a", "l">> } \cup CleanAndJerkWords
       THEN VerticalLiftRow(st, row, lower)
       ELSE IF Contains(lower, <<"k", "g">>)
       THEN [ClearLifts(save_current_record(st))
               EXCEPT !.current_weight_class = first_col]
       ELSE IF second_col = <<>> /\ Truthy(parsed) /\ parsed # first_col
       THEN [st EXCEPT !.current_age_category = parsed,
                       !.current_weight_class = NoText]
       ELSE st

(* The tabs and the rows the vertical parser is run on. *)
VerticalTabs == { << <<"Y", "o", "u", "t", "h">>, <<"W", "o", "m", "e", "n">> >>, << <<"S", "e", "n", "i", "o", "r">>, <<"W", "o", "m", "e", "n">> >> }

VerticalRows ==
    { << <<"O", "h", "i", "o", " ", "L", "i", "f", "t", " ", "1", "3", " ", "a", "n", "d", " ", "U", "n", "d", "e", "r", " ", "3", "6", " ", "k", "g">> >>,
      << <<"1", "3", " ", "a", "n", "d", " ", "U", "n", "d", "e", "r">> >>,
      << <<"4", "0", "k", "g">> >>,
      << <<"S", "n", "a", "t", "c", "h">>, <<>>, <<>>, <<"5", "5">> >>,
      << <<"S", "n", "a", "t", "c", "h">>, <<>>, <<>>, <<"0">> >>,
      << <<"C", "l", "e", "a", "n", " ", "&", " ", "J", "e", "r", "k">>, <<>>, <<>>, <<"7", "0">> >>,
      << <<"T", "o", "t", "a", "l">>, <<>>, <<>>, <<"1", "2", "5">> >> }

InitVertical ==
    /\ layout = "vertical"
    /\ parse_pc = "scan"
    /\ \E tab \in VerticalTabs :
          /\ tab_age_category = tab[1]
          /\ tab_gender = tab[2]
          /\ scan = ScanStart(IF tab[1] \in { <<"J", "u", "n", "i", "o", "r">>, <<"S", "e", "n", "i", "o", "r">> }
                              THEN tab[1] ELSE NoText,
                              tab[2], <<>>, FALSE)
    /\ all_values = <<>>

(* The loop body, for the next row of the tab. *)
VerticalRowStep ==
    /\ layout = "vertical" /\ parse_pc = "scan"
    /\ Len(all_values) < MaxRows
    /\ \E row \in VerticalRows :
          /\ scan' = VerticalRow(scan, row, Len(all_values), tab_age_category)
          /\ all_values' = Append(all_values, row)
    /\ UNCHANGED <<notParseVars, layout, parse_pc, tab_age_category, tab_gender>>

(* After the last row: "Don't forget the last record", and return. *)
VerticalReturn ==
    /\ layout = "vertical" /\ parse_pc = "scan"
    /\ scan' = save_current_record(scan)
    /\ parse_pc' = "done"
    /\ UNCHANGED <<notParseVars, layout, tab_age_category, tab_gender, all_values>>

NextVertical ==
    \/ VerticalRowStep
    \/ VerticalReturn

-----------------------------------------------------------------------------
(* scraper_pdf_newengland.py: the table-document parser, scrape_pdf.       *)

normalize_weight_class_pdf(weight_str_) ==
    LET weight_str == Strip(weight_str_)
    IN IF weight_str_ = <<>> THEN NoText
       ELSE IF Contains(weight_str, <<"+">>) /\ ~EndsWith(weight_str, <<"+">>)
       THEN Remove(weight_str, "+") \o <<"+">>
       ELSE weight_str

(* int(float(str(value).strip())), None for "", "0", a zero or a ValueError *)
parse_int_pdf(value) ==
    IF value = <<>> \/ value = <<"0">> THEN None
    ELSE IF ~isdigit(Strip(value)) THEN None
    ELSE IF ToNat(Strip(value)) = 0 THEN None
    ELSE ToNat(Strip(value))

NoHeader == << NoText, NoText >>

(* The <<age category, gender>> a section header names. *)
_parse_section_header(header_) ==
    LET header == Strip(header_)
        gender_ == IF Contains(header, <<"M", "e", "n">>) THEN <<"M", "e", "n">>
                   ELSE IF Contains(header, <<"W", "o", "m", "e", "n">>) THEN <<"W", "o", "m", "e", "n">>
                   ELSE NoText
    IN IF gender_ = NoText THEN NoHeader
       ELSE IF Contains(header, <<"O", "p", "e", "n">>) THEN << <<"S", "e", "n", "i", "o", "r">>, gender_ >>
       ELSE IF Contains(header, <<"J", "u", "n", "i", "o", "r">>) THEN << <<"J", "u", "n", "i", "o", "r">>, gender_ >>
       ELSE IF \/ Contains(header, <<"Y", "o", "u", "t", "h">>) \/ Contains(header, <<"1", "6", "-", "1", "7">>)
               \/ Contains(header, <<"1", "6", "/", "1", "7">>)
       THEN IF \/ Contains(header, <<"1", "6", "-", "1", "7">>) \/ Contains(header, <<"1", "6", "/", "1", "7">>)
               \/ Contains(header, <<"U", "1", "7">>)
            THEN << <<"U", "1", "7">>, gender_ >>
            ELSE IF \/ Contains(header, <<"1", "4", "-", "1", "5">>) \/ Contains(header, <<"1", "4", "/", "1", "5">>)
                    \/ Contains(header, <<"U", "1", "5">>)
            THEN << <<"U", "1", "5">>, gender_ >>
            ELSE IF Contains(header, <<"1", "3">>)
            THEN << <<"U", "1", "3">>, gender_ >>
            ELSE NoHeader
       ELSE IF Contains(header, <<"M", "a", "s", "t", "e", "r", "s">>) /\ RangeMatches(header) # {}
       THEN << <<"M", "a", "s", "t", "e", "r", "s", " ">> \o RangeLower(header), gender_ >>
       ELSE NoHeader

(* The save of scrape_pdf: it also asks for the gender. *)
SaveTableRecord(st) ==
    IF /\ Truthy(st.current_weight_class) /\ Truthy(st.current_age_category)
       /\ Truthy(st.current_gender)
    THEN AppendRecord(st)
    ELSE st

(* "Parse lift data": the row's lift goes into the slot its type names. *)
TableLiftCells_OpenAsWritten(st, row) ==
    LET lift_type == Strip(row[2])
        name == Strip(row[3])
        cell == Strip(row[6])
        weight_value == IF name = <<"O", "p", "e", "n">> \/ cell = <<>>
                        THEN None
                        ELSE parse_int_pdf(cell)
    IN IF Contains(lift_type, <<"S", "n", "a", "t", "c", "h">>)
       THEN StoreLift(st, "current_snatch", weight_value)
       ELSE IF Contains(lift_type, <<"C", "&", "J">>) \/ Contains(lift_type, <<"C", "l", "e", "a", "n">>)
       THEN StoreLift(st, "current_cj", weight_value)
       ELSE IF Contains(lift_type, <<"T", "o", "t", "a", "l">>)
       THEN StoreLift(st, "current_total", weight_value)
       ELSE st

TableLiftCells(st, row) ==
    LET lift_type == Strip(row[2])
        name == Strip(row[3])
        cell == Strip(row[6])
        weight_value == IF Upper(name) = <<"O", "P", "E", "N">> \/ cell = <<>>
                        THEN None
                        ELSE parse_int_pdf(cell)
    IN IF Contains(lift_type, <<"S", "n", "a", "t", "c", "h">>)
       THEN StoreLift(st, "current_snatch", weight_value)
       ELSE IF Contains(lift_type, <<"C", "&", "J">>) \/ Contains(lift_type, <<"C", "l", "e", "a", "n">>)
       THEN StoreLift(st, "current_cj", weight_value)
       ELSE IF Contains(lift_type, <<"T", "o", "t", "a", "l">>)
       THEN StoreLift(st, "current_total", weight_value)
       ELSE st

(* One iteration of "for row in table". *)
TableRow(st, row) ==
    LET first_cell == Strip(row[1])
        header == _parse_section_header(first_cell)
        starts_class == /\ first_cell # <<>>
                        /\ isdigit(Remove(Remove(first_cell, "+"), " "))
        st1 == IF starts_class
               THEN [ClearLifts(SaveTableRecord(st))
                       EXCEPT !.current_weight_class =
                                  normalize_weight_class_pdf(first_cell)]
               ELSE st
    IN IF Len(row) < 2
       THEN st
       ELSE IF Contains(first_cell, <<"R", "e", "c", "o", "r", "d", "s">>)
       THEN IF Truthy(header[1]) /\ Truthy(header[2])
            THEN [st EXCEPT !.current_age_category = header[1],
                            !.current_gender = header[2]]
            ELSE st
       ELSE IF first_cell = <<"C", "l", "a", "s", "s">> \/ first_cell = <<"L", "i", "f", "t">>
       THEN st
       ELSE IF Len(row) >= 6
       THEN TableLiftCells(st1, row)
       ELSE st1

(* The rows of the extracted tables. *)
TableRows ==
    { << <<"O", "p", "e", "n", " ", "M", "e", "n", "'", "s", " ", "R", "e", "c", "o", "r", "d", "s">>, <<>> >>,
      << <<"M", "a", "s", "t", "e", "r", "s", " ", "3", "5", "-", "3", "9", " ", "W", "o", "m", "e", "n", "'", "s", " ", "R", "e", "c", "o", "r", "d", "s">>, <<>> >>,
      << <<"5", "5">>, <<"S", "n", "a", "t", "c", "h">>, <<"A", "n", "n">>, <<>>, <<>>, <<"1", "0", "0">> >>,
      << <<"+", "1", "1", "0">>, <<"C", "l", "e", "a", "n", " ", "&", " ", "J", "e", "r", "k">>, <<"B", "o", "b">>, <<>>, <<>>, <<"0">> >>,
      << <<>>, <<"T", "o", "t", "a", "l">>, <<"O", "P", "E", "N">>, <<>>, <<>>, <<"2", "0", "0">> >>,
      << <<>>, <<"T", "o", "t", "a", "l">>, <<"C", "y">>, <<>>, <<>>, <<"2", "2", "0">> >>,
      << <<>>, <<"S", "n", "a", "t", "c", "h">>, <<"S", "t", "a", "n", "d", "a", "r", "d">>, <<>>, <<>>, <<"9", "5">> >>,
      << <<>>, <<"C", "l", "e", "a", "n", " ", "&", " ", "J", "e", "r", "k">>, <<"o", "p", "e", "n">>, <<>>, <<>>, <<"1", "3", "0">> >> }

InitTable ==
    /\ layout = "table"
    /\ parse_pc = "scan"
    /\ tab_age_category = <<>> /\ tab_gender = <<>>
    /\ scan = ScanStart(NoText, NoText, <<>>, FALSE)
    /\ all_values = << <<>> >>

(* The rows read so far, a table break counting as one. *)
RECURSIVE RowCount(_)
RowCount(tables) ==
    IF tables = <<>> THEN 0 ELSE 1 + Len(Head(tables)) + RowCount(Tail(tables))

RowsRead == RowCount(all_values) - 1

(* The loop body, for the next row of the current table. *)
TableRowStep ==
    /\ layout = "table" /\ parse_pc = "scan"
    /\ RowsRead < MaxTableRows
    /\ \E row \in TableRows :
          /\ scan' = TableRow(scan, row)
          /\ all_values' = [all_values EXCEPT ![Len(all_values)] = Append(@, row)]
    /\ UNCHANGED <<notParseVars, layout, parse_pc, tab_age_category, tab_gender>>

(* The end of a table that another one follows: "Save last weight class",  *)
(* then the locals start afresh for the next table.                        *)
NextTable ==
    /\ layout = "table" /\ parse_pc = "scan"
    /\ RowsRead < MaxTableRows
    /\ all_values[Len(all_values)] # <<>>
    /\ LET st == SaveTableRecord(scan)
       IN scan' = ScanStart(NoText, NoText, st.records, st.emitted_unset)
    /\ all_values' = Append(all_values, <<>>)
    /\ UNCHANGED <<notParseVars, layout, parse_pc, tab_age_category, tab_gender>>

(* The end of the last table: "Save last weight class", and return. *)
TableReturn ==
    /\ layout = "table" /\ parse_pc = "scan"
    /\ scan' = SaveTableRecord(scan)
    /\ parse_pc' = "done"
    /\ UNCHANGED <<notParseVars, layout, tab_age_category, tab_gender, all_values>>

NextTableParse ==
    \/ TableRowStep
    \/ NextTable
    \/ TableReturn
ParseIdle ==
    /\ layout = "none" /\ parse_pc = "idle"
    /\ tab_age_category = <<>> /\ tab_gender = <<>>
    /\ all_values = <<>>
    /\ scan = ScanStart(NoText, NoText, <<>>, FALSE)

-----------------------------------------------------------------------------
(* scraper_florida.py and scraper_newjersey.py: scrape_sheet over the tabs *)
(* and the side-by-side parsers.                                           *)

(* row[k].strip() if len(row) > k else "", for a 0-based k *)
Cell(row, k) == IF Len(row) > k THEN Strip(row[k + 1]) ELSE <<>>

(* _parse_int of both scrapers: int(float(value)), None for "", for a zero *)
(* and on ValueError.                                                      *)
parse_int_zero_none(value) ==
    IF value = <<>> THEN None
    ELSE IF ~isdigit(Strip(value)) THEN None
    ELSE IF ToNat(Strip(value)) = 0 THEN None
    ELSE ToNat(Strip(value))

(* The weight class of a side: the cell, or the last closed class with a   *)
(* "+" when the cell is blank; NoText when there is neither.               *)
SideWeightClass(cell, last_weight) ==
    IF cell # <<>> THEN cell
    ELSE IF Truthy(last_weight) THEN last_weight \o <<"+">>
    ELSE NoText

(* Florida's _determine_age_category: the tab names are the keys of        *)
(* self.tabs, none of which is "Youth" or "Masters", so the base age is    *)
(* returned as it is.                                                      *)
_determine_age_category(base_age) == base_age

(* Florida's _parse_side: << >> for None, << record >> otherwise. *)
_parse_side(start_row, col_offset, gender_, base_age, row_idx, all_rows, last_weight) ==
    LET weight_class == SideWeightClass(Cell(start_row, col_offset), last_weight)
        snatch == parse_int_zero_none(Cell(start_row, col_offset + 2))
        cj == IF row_idx + 1 < Len(all_rows)
              THEN parse_int_zero_none(Cell(all_rows[row_idx + 2], col_offset + 2))
              ELSE None
        total == IF row_idx + 2 < Len(all_rows)
                 THEN parse_int_zero_none(Cell(all_rows[row_idx + 3], col_offset + 2))
                 ELSE None
    IN IF weight_class = NoText THEN << >>
       ELSE << MkRecord(wso_name, _determine_age_category(base_age), gender_,
                        weight_class, snatch, cj, total) >>

_parse_single_side_ShiftedLifts(row, col_offset, gender_, age_category, last_weight) ==
    LET weight_class == SideWeightClass(Cell(row, col_offset), last_weight)
    IN IF weight_class = NoText THEN << >>
       ELSE << MkRecord(wso_name, age_category, gender_, weight_class,
                        parse_int_zero_none(Cell(row, col_offset + 2)),
                        parse_int_zero_none(Cell(row, col_offset + 3)),
                        parse_int_zero_none(Cell(row, col_offset + 4))) >>

(* New Jersey's _parse_single_side *)
_parse_single_side(row, col_offset, gender_, age_category, last_weight) ==
    LET weight_class == SideWeightClass(Cell(row, col_offset), last_weight)
    IN IF weight_class = NoText THEN << >>
       ELSE << MkRecord(wso_name, age_category, gender_, weight_class,
                        parse_int_zero_none(Cell(row, col_offset + 3)),
                        parse_int_zero_none(Cell(row, col_offset + 4)),
                        parse_int_zero_none(Cell(row, col_offset + 5))) >>

LastWeight_AnyClass(side_record, last_weight) ==
    IF /\ side_record # << >>
       /\ side_record[1].weight_class # <<>>
    THEN side_record[1].weight_class
    ELSE last_weight

(* The last closed weight class after a side gave side_record. *)
LastWeight(side_record, last_weight) ==
    IF /\ side_record # << >>
       /\ side_record[1].weight_class # <<>>
       /\ ~EndsWith(side_record[1].weight_class, <<"+">>)
    THEN side_record[1].weight_class
    ELSE last_weight

TabStart ==
    [records |-> << >>, last_men_weight |-> NoText, last_women_weight |-> NoText]

(* One iteration of Florida's "while i < len(rows)". *)
FloridaRow(st, all_rows, row_idx, tab) ==
    LET row == all_rows[row_idx + 1]
        men_record == _parse_side(row, 0, <<"M", "e", "n">>, tab, row_idx, all_rows,
                                  st.last_men_weight)
        women_record == _parse_side(row, 6, <<"W", "o", "m", "e", "n">>, tab, row_idx, all_rows,
                                    st.last_women_weight)
    IN IF Len(row) < 10
       THEN st
       ELSE IF Cell(row, 1) = <<"S", "n", "a", "t", "c", "h">> \/ Cell(row, 7) = <<"S", "n", "a", "t", "c", "h">>
       THEN [records |-> st.records \o men_record \o women_record,
             last_men_weight |-> LastWeight(men_record, st.last_men_weight),
             last_women_weight |-> LastWeight(women_record, st.last_women_weight)]
       ELSE st

(* One iteration of New Jersey's "for i, row in enumerate(rows)". *)
NewJerseyRow(st, all_rows, row_idx, tab) ==
    LET row == all_rows[row_idx + 1]
        only_men == _parse_single_side(row, 1, <<"M", "e", "n">>, tab, st.last_men_weight)
        women_record == _parse_single_side(row, 1, <<"W", "o", "m", "e", "n">>, tab,
                                           st.last_women_weight)
        men_record == _parse_single_side(row, 8, <<"M", "e", "n">>, tab, st.last_men_weight)
    IN IF Len(row) < 14 \/ row_idx = 0
       THEN st
       ELSE IF tab = <<"M", "a", "s", "t", "e", "r", "s", " ", "8", "0">>
       THEN [st EXCEPT !.records = @ \o only_men,
                       !.last_men_weight = LastWeight(only_men, @)]
       ELSE [records |-> st.records \o women_record \o men_record,
             last_men_weight |-> LastWeight(men_record, st.last_men_weight),
             last_women_weight |-> LastWeight(women_record, st.last_women_weight)]

(* What scrape_sheet returns for the records collected from the tabs. *)
scrape_sheet_Unconsolidated(s, collected) == collected

scrape_sheet(s, collected) ==
    IF s = "newjersey" THEN _consolidate_records(collected) ELSE collected

-----------------------------------------------------------------------------
(* scraper_pawv.py: scrape_tab, the vertical parser of the PA/WV tabs.     *)

(* re.search(r'\((\d+)-\d+\)', header): the positions of a "(" that a run  *)
(* of digits, a hyphen, a run of digits and a ")" follow.                  *)
MastersRangeMatches(header) ==
    { a \in 1..Len(header) :
        /\ header[a] = "("
        /\ a < Len(header) /\ IsDigitChar(header[a + 1])
        /\ LET e == DigitRunEnd(header, a + 1)
           IN /\ e + 2 <= Len(header)
              /\ header[e + 1] = "-"
              /\ IsDigitChar(header[e + 2])
              /\ DigitRunEnd(header, e + 2) < Len(header)
              /\ header[DigitRunEnd(header, e + 2) + 1] = ")" }

(* _normalize_age_category: NoText for None *)
_normalize_age_category(section_header, base_age) ==
    LET header == Strip(section_header)
        a == Min(MastersRangeMatches(header))
    IN IF Contains(header, <<"1", "3">>) /\ Contains(header, <<"U", "n", "d", "e", "r">>) THEN <<"U", "1", "3">>
       ELSE IF Contains(header, <<"1", "4", "-", "1", "5">>) \/ Contains(header, <<"1", "4", " ", "-", " ", "1", "5">>) THEN <<"U", "1", "5">>
       ELSE IF Contains(header, <<"1", "6", "-", "1", "7">>) \/ Contains(header, <<"1", "6", " ", "-", " ", "1", "7">>) THEN <<"U", "1", "7">>
       ELSE IF Contains(header, <<"M", "a", "s", "t", "e", "r", "s">>) /\ MastersRangeMatches(header) # {}
       THEN <<"M", "a", "s", "t", "e", "r", "s", " ">> \o SubSeq(header, a + 1, DigitRunEnd(header, a + 1))
       ELSE IF base_age \in { <<"J", "u", "n", "i", "o", "r">>, <<"S", "e", "n", "i", "o", "r">> } THEN base_age
       ELSE NoText

(* _normalize_weight_class: "40kg" -> "40", "+65kg" -> "65+", NoText for None *)
_normalize_weight_class(weight_str_) ==
    LET weight_str == Strip(weight_str_)
        plus == { k \in 1..(Len(weight_str) - 1) :
                     weight_str[k] = "+" /\ IsDigitChar(weight_str[k + 1]) }
        runs == DigitRunStarts(weight_str)
    IN IF StartsWith(weight_str, <<"+">>) /\ plus # {}
       THEN SubSeq(weight_str, Min(plus) + 1, DigitRunEnd(weight_str, Min(plus) + 1)) \o <<"+">>
       ELSE IF runs # {}
       THEN SubSeq(weight_str, Min(runs), DigitRunEnd(weight_str, Min(runs)))
       ELSE NoText

(* _parse_int of scraper_pawv.py: int(float(value.strip())), None for "",  *)
(* for "Standard" in any case and on ValueError; a zero stays a zero.      *)
parse_int_pawv(value) ==
    IF Strip(value) = <<>> \/ Upper(Strip(value)) = <<"S", "T", "A", "N", "D", "A", "R", "D">> THEN None
    ELSE IF isdigit(Strip(value)) THEN ToNat(Strip(value))
    ELSE None

(* One iteration of "for i, row in enumerate(rows)" of scrape_tab. *)
PawvRow(st, row, gender_, base_age_category) ==
    LET first_col == Strip(row[1])
        age_cat == _normalize_age_category(first_col, base_age_category)
        weight_class == _normalize_weight_class(first_col)
        parsed_weight == parse_int_pawv(Cell(row, 3))
        saved == save_current_record(st)
    IN IF Len(row) < 4 THEN st
       ELSE IF /\ Contains(first_col, <<"A", "g", "e", " ", "G", "r", "o", "u", "p">>) \/ Contains(first_col, <<"M", "a", "s", "t", "e", "r", "s">>)
               /\ \/ Contains(first_col, gender_)
                  \/ Contains(first_col, <<"M", "e", "n", "'", "s">>) \/ Contains(first_col, <<"W", "o", "m", "e", "n", "'", "s">>)
       THEN IF Truthy(age_cat)
            THEN [ClearLifts(st) EXCEPT !.current_age_category = age_cat,
                                        !.current_weight_class = NoText]
            ELSE st
       ELSE IF /\ base_age_category \in { <<"J", "u", "n", "i", "o", "r">>, <<"S", "e", "n", "i", "o", "r">> }
               /\ \/ Contains(first_col, base_age_category \o <<" ">> \o gender_)
                  \/ Contains(first_col, <<"O", "p", "e", "n", " ">> \o gender_)
                  \/ Contains(first_col, gender_ \o <<"'", "s">>)
       THEN st
       ELSE IF \/ EndsWith(first_col, <<"k", "g">>)
               \/ StartsWith(first_col, <<"+">>) /\ Contains(first_col, <<"k", "g">>)
       THEN IF Truthy(weight_class)
            THEN [ClearLifts(saved) EXCEPT !.current_weight_class = weight_class]
            ELSE saved
       ELSE IF first_col = <<"S", "n", "a", "t", "c", "h">> THEN StoreLift(st, "current_snatch", parsed_weight)
       ELSE IF first_col = <<"C", "l", "e", "a", "n", " ", "&", " ", "J", "e", "r", "k">> THEN StoreLift(st, "current_cj", parsed_weight)
       ELSE IF first_col = <<"T", "o", "t", "a", "l">> THEN StoreLift(st, "current_total", parsed_weight)
       ELSE st

RECURSIVE PawvRowsFrom(_, _, _, _)
PawvRowsFrom(st, grid, gender_, base_age_category) ==
    IF grid = << >> THEN st
    ELSE PawvRowsFrom(PawvRow(st, Head(grid), gender_, base_age_category),
                      Tail(grid), gender_, base_age_category)

(* The records scrape_tab returns for the rows of a fetched tab. *)
scrape_tab(grid, gender_, base_age_category) ==
    save_current_record(
        PawvRowsFrom(ScanStart(IF base_age_category \in { <<"J", "u", "n", "i", "o", "r">>, <<"S", "e", "n", "i", "o", "r">> }
                               THEN base_age_category ELSE NoText,
                               gender_, << >>, FALSE),
                     grid, gender_, base_age_category)).records

(* The tabs scraped, two of the eight of self.tabs: (gender, base age). *)
PawvTabs == << << <<"M", "e", "n">>, <<"S", "e", "n", "i", "o", "r">> >>, << <<"W", "o", "m", "e", "n">>, <<"M", "a", "s", "t", "e", "r", "s">> >> >>

PawvRows ==
    { << <<"O", "p", "e", "n", " ", "M", "e", "n", "'", "s">>, <<>>, <<>>, <<>> >>,
      << <<"W", "o", "m", "e", "n", "'", "s", " ", "M", "a", "s", "t", "e", "r", "s", " ", "(", "3", "5", "-", "3", "9", ")">>, <<>>, <<>>, <<>> >>,
      << <<"8", "1", "k", "g">>, <<>>, <<>>, <<>> >>,
      << <<"+", "1", "0", "9", "k", "g">>, <<>>, <<>>, <<>> >>,
      << <<"S", "n", "a", "t", "c", "h">>, <<>>, <<>>, <<"1", "0", "0">> >>,
      << <<"T", "o", "t", "a", "l">>, <<>>, <<>>, <<"S", "t", "a", "n", "d", "a", "r", "d">> >>,
      << <<"S", "n", "a", "t", "c", "h">> >> }

-----------------------------------------------------------------------------
(* scrape_sheet / scrape_all_tabs over the tabs.                           *)

(* The tabs scraped, two of the fifteen of self.tabs, and their rows. *)
SheetTabs(s) ==
    IF s = "pawv" THEN PawvTabs
    ELSE IF s = "newjersey" THEN << <<"S", "e", "n", "i", "o", "r">>, <<"M", "a", "s", "t", "e", "r", "s", " ", "8", "0">> >>
    ELSE << <<"S", "e", "n", "i", "o", "r">>, <<"J", "u", "n", "i", "o", "r">> >>

FlRow(mw, ml, mv, ww, wl, wv) ==
    << mw, ml, mv, <<>>, <<>>, <<>>, ww, wl, wv, <<>>, <<>>, <<>> >>

FloridaRows ==
    { << <<"F", "l", "o", "r", "i", "d", "a", " ", "R", "e", "c", "o", "r", "d", "s">> >>,
      FlRow(<<"8", "1">>, <<"S", "n", "a", "t", "c", "h">>, <<"1", "0", "0">>, <<"7", "1">>, <<"S", "n", "a", "t", "c", "h">>, <<"6", "0">>),
      FlRow(<<>>, <<"S", "n", "a", "t", "c", "h">>, <<"1", "0", "5">>, <<>>, <<>>, <<>>),
      FlRow(<<>>, <<"C", "l", "e", "a", "n", " ", "&", " ", "J", "e", "r", "k">>, <<"1", "2", "0">>, <<>>, <<"C", "l", "e", "a", "n", " ", "&", " ", "J", "e", "r", "k">>, <<"0">>),
      FlRow(<<>>, <<"T", "o", "t", "a", "l">>, <<"2", "2", "0">>, <<>>, <<"T", "o", "t", "a", "l">>, <<"1", "3", "5">>) }

NjRow(ww, ws, wc, wt, mw, ms, mc, mt) ==
    << <<>>, ww, <<>>, <<>>, ws, wc, wt, <<>>, mw, <<>>, <<>>, ms, mc, mt >>

NewJerseyRows ==
    { << <<"N", "e", "w", " ", "J", "e", "r", "s", "e", "y", " ", "R", "e", "c", "o", "r", "d", "s">> >>,
      NjRow(<<"C", "l", "a", "s", "s">>, <<"S", "n", "a", "t", "c", "h">>, <<"C", "&", "J">>, <<"T", "o", "t", "a", "l">>,
            <<"C", "l", "a", "s", "s">>, <<"S", "n", "a", "t", "c", "h">>, <<"C", "&", "J">>, <<"T", "o", "t", "a", "l">>),
      NjRow(<<"7", "1">>, <<"9", "0">>, <<>>, <<>>, <<"8", "1">>, <<"1", "0", "0">>, <<"1", "2", "0">>, <<"2", "2", "0">>),
      NjRow(<<"7", "1">>, <<>>, <<"1", "1", "7">>, <<"2", "0", "3">>, <<>>, <<"0">>, <<>>, <<>>),
      NjRow(<<>>, <<>>, <<>>, <<>>, <<"8", "1">>, <<"1", "0", "5">>, <<"1", "2", "0">>, <<"2", "2", "5">>),
      NjRow(<<"8", "8">>, <<>>, <<>>, <<>>, <<"9", "4">>, <<"1", "3", "0">>, <<"1", "6", "0">>, <<"2", "9", "0">>) }

SheetRows(s) == IF s = "newjersey" THEN NewJerseyRows ELSE FloridaRows

InitSheet ==
    /\ sheet_scraper \in { "florida", "newjersey", "pawv" }
    /\ sheet_pc = "tabs"
    /\ tab_index = 0
    /\ rows = << >> /\ row_i = 0
    /\ tab_state = TabStart
    /\ sheet_records = << >>
    /\ rows_fetched = 0
    /\ scraped = << >>

(* _scrape_tab fetched the next tab: its rows go to _parse_side_by_side. *)
StartTab ==
    /\ sheet_scraper \in { "florida", "newjersey" }
    /\ sheet_pc = "tabs"
    /\ tab_index < Len(SheetTabs(sheet_scraper))
    /\ \E n \in 0..(MaxSheetRows - rows_fetched) :
          \E grid \in [1..n -> SheetRows(sheet_scraper)] :
              /\ rows' = grid
              /\ rows_fetched' = rows_fetched + n
    /\ tab_index' = tab_index + 1
    /\ row_i' = 0
    /\ tab_state' = TabStart
    /\ sheet_pc' = "rows"
    /\ UNCHANGED <<notSheetVars, sheet_scraper, sheet_records, scraped>>

(* _scrape_tab raised (the fetch failed): scrape_sheet catches it and the  *)
(* tab is skipped.                                                         *)
TabFails ==
    /\ sheet_scraper \in { "florida", "newjersey" }
    /\ sheet_pc = "tabs"
    /\ tab_index < Len(SheetTabs(sheet_scraper))
    /\ tab_index' = tab_index + 1
    /\ UNCHANGED <<notSheetVars, sheet_scraper, sheet_pc, rows, row_i, tab_state,
                   sheet_records, rows_fetched, scraped>>

FloridaRowStep ==
    /\ sheet_pc = "rows" /\ sheet_scraper = "florida"
    /\ row_i < Len(rows)
    /\ tab_state' = FloridaRow(tab_state, rows, row_i,
                               SheetTabs(sheet_scraper)[tab_index])
    /\ row_i' = row_i + 1
    /\ UNCHANGED <<notSheetVars, sheet_scraper, sheet_pc, tab_index, rows,
                   sheet_records, rows_fetched, scraped>>

NewJerseyRowStep ==
    /\ sheet_pc = "rows" /\ sheet_scraper = "newjersey"
    /\ row_i < Len(rows)
    /\ tab_state' = NewJerseyRow(tab_state, rows, row_i,
                                 SheetTabs(sheet_scraper)[tab_index])
    /\ row_i' = row_i + 1
    /\ UNCHANGED <<notSheetVars, sheet_scraper, sheet_pc, tab_index, rows,
                   sheet_records, rows_fetched, scraped>>

(* scrape_all_tabs of scraper_pawv.py: scrape_tab fetched and parsed the   *)
(* next tab, all_records.extend(tab_records).                              *)
PawvTab ==
    /\ sheet_scraper = "pawv"
    /\ sheet_pc = "tabs"
    /\ tab_index < Len(SheetTabs(sheet_scraper))
    /\ \E n \in 0..(MaxSheetRows - rows_fetched) :
          \E grid \in [1..n -> PawvRows] :
              /\ rows' = grid
              /\ rows_fetched' = rows_fetched + n
              /\ sheet_records' =
                    sheet_records \o scrape_tab(grid, SheetTabs(sheet_scraper)[tab_index + 1][1],
                                                SheetTabs(sheet_scraper)[tab_index + 1][2])
    /\ tab_index' = tab_index + 1
    /\ UNCHANGED <<notSheetVars, sheet_scraper, sheet_pc, row_i, tab_state, scraped>>

(* fetch_csv_data raised in scrape_tab: nothing in scrape_all_tabs or run  *)
(* catches it, so the run ends there with the records collected so far     *)
(* never returned.                                                         *)
PawvTabFails ==
    /\ sheet_scraper = "pawv"
    /\ sheet_pc = "tabs"
    /\ tab_index < Len(SheetTabs(sheet_scraper))
    /\ sheet_pc' = "aborted"
    /\ UNCHANGED <<notSheetVars, sheet_scraper, tab_index, rows, row_i, tab_state,
                   sheet_records, rows_fetched, scraped>>

(* _parse_side_by_side returned: all_records.extend(records) *)
TabDone ==
    /\ sheet_pc = "rows"
    /\ row_i = Len(rows)
    /\ sheet_records' = sheet_records \o tab_state.records
    /\ sheet_pc' = "tabs"
    /\ UNCHANGED <<notSheetVars, sheet_scraper, tab_index, rows, row_i, tab_state,
                   rows_fetched, scraped>>

(* scrape_sheet returns, and run() has the list it hands to upsert_records *)
(* or to the dry-run comparison.                                           *)
SheetReturn ==
    /\ sheet_pc = "tabs"
    /\ tab_index = Len(SheetTabs(sheet_scraper))
    /\ scraped' = scrape_sheet(sheet_scraper, sheet_records)
    /\ sheet_pc' = "returned"
    /\ UNCHANGED <<notSheetVars, sheet_scraper, tab_index, rows, row_i, tab_state,
                   sheet_records, rows_fetched>>

NextSheet ==
    \/ StartTab
    \/ TabFails
    \/ PawvTab
    \/ PawvTabFails
    \/ FloridaRowStep
    \/ NewJerseyRowStep
    \/ TabDone
    \/ SheetReturn

SheetIdle ==
    /\ sheet_scraper = "florida" /\ sheet_pc = "idle"
    /\ tab_index = 0 /\ rows = << >> /\ row_i = 0
    /\ tab_state = TabStart
    /\ sheet_records = << >> /\ rows_fetched = 0 /\ scraped = << >>


-----------------------------------------------------------------------------
(* scraper_ga_pnw.py: the flat-row parser (one CSV row per lift).          *)

MaxFlatRows == 3

(* s.replace(old, new, 1) *)
ReplaceFirst(s, old, new) ==
    IF Occurrences(s, old) = {} THEN s
    ELSE LET k == Min(Occurrences(s, old))
         IN SubSeq(s, 1, k - 1) \o new \o SubSeq(s, k + Len(old), Len(s))

(* _normalize_age_group: JR -> Junior, Open -> Senior, M<n> / W<n> -> Masters <n> *)
_normalize_age_group(raw) ==
    LET age_group == Strip(raw)
        age_group_upper == Upper(age_group)
        digits_end == DigitRunEnd(age_group, 2)
    IN IF StartsWith(age_group_upper, <<"J", "R">>)
       THEN ReplaceFirst(ReplaceFirst(age_group, <<"J", "R">>, <<"J", "u", "n", "i", "o", "r">>), <<"j", "r">>, <<"J", "u", "n", "i", "o", "r">>)
       ELSE IF StartsWith(age_group_upper, <<"O", "P", "E", "N">>)
       THEN <<"S", "e", "n", "i", "o", "r">> \o SubSeq(age_group, 5, Len(age_group))
       ELSE IF /\ Len(age_group) >= 2
               /\ age_group_upper[1] \in {"M", "W"}
               /\ IsDigitChar(age_group[2])
       THEN <<"M", "a", "s", "t", "e", "r", "s", " ">> \o SubSeq(age_group, 2, digits_end)
                        \o SubSeq(age_group, digits_end + 1, Len(age_group))
       ELSE age_group

(* "Women" if gender_raw == "F" else "Men" if gender_raw == "M" else None *)
FlatGender(gender_raw) ==
    IF gender_raw = <<"F">> THEN <<"W", "o", "m", "e", "n">>
    ELSE IF gender_raw = <<"M">> THEN <<"M", "e", "n">>
    ELSE NoText

(* The weight class of a row, NoText when both bounds are empty. *)
FlatWeightClass_BareMin(weight_min, weight_max) ==
    IF weight_max = <<>> /\ weight_min # <<>>
    THEN weight_min
    ELSE IF weight_max # <<>>
    THEN IF Contains(weight_max, <<">">>)
         THEN Remove(weight_max, ">") \o <<"+">>
         ELSE weight_max
    ELSE NoText

FlatWeightClass(weight_min, weight_max) ==
    IF weight_max = <<>> /\ weight_min # <<>>
    THEN weight_min \o <<"+">>
    ELSE IF weight_max # <<>>
    THEN IF Contains(weight_max, <<">">>)
         THEN Remove(weight_max, ">") \o <<"+">>
         ELSE weight_max
    ELSE NoText

(* The record field a lift name selects, "" for any other name. *)
FlatLiftField(lift_type) ==
    LET lift_type_lower == Lower(lift_type)
    IN IF lift_type_lower = <<"s", "n", "a", "t", "c", "h">> THEN "snatch_record"
       ELSE IF lift_type_lower \in { <<"c", "l", "e", "a", "n", " ", "&", " ", "j", "e", "r", "k">>, <<"c", "l", "e", "a", "n", " ", "a", "n", "d", " ", "j", "e", "r", "k">>, <<"c", "&", "j">>, <<"c", "l", "e", "a", "n", "j", "e", "r", "k">> }
       THEN "cj_record"
       ELSE IF lift_type_lower = <<"t", "o", "t", "a", "l">> THEN "total_record"
       ELSE ""

GroupedStore_KeepsMax(grouped, age_group, gender_, weight_class, field, record_int) ==
    LET key == <<wso_name, age_group, gender_, weight_class>>
        at == { k \in 1..Len(grouped) : KeyOf(grouped[k]) = key }
    IN IF at = {}
       THEN Append(grouped,
                   [MkRecord(wso_name, age_group, gender_, weight_class, None, None, None)
                        EXCEPT ![field] = record_int])
       ELSE [grouped EXCEPT ![Min(at)][field] = IF record_int > @ THEN record_int ELSE @]

(* grouped[key][lift] = record_int, on a defaultdict that keeps the keys   *)
(* in the order of their first use.                                        *)
GroupedStore(grouped, age_group, gender_, weight_class, field, record_int) ==
    LET key == <<wso_name, age_group, gender_, weight_class>>
        at == { k \in 1..Len(grouped) : KeyOf(grouped[k]) = key }
    IN IF at = {}
       THEN Append(grouped,
                   [MkRecord(wso_name, age_group, gender_, weight_class, None, None, None)
                        EXCEPT ![field] = record_int])
       ELSE [grouped EXCEPT ![Min(at)][field] = record_int]

(* The row raises: csv.DictReader skips an empty line and fills the        *)
(* fields a short row lacks with None, and row.get('x', '').strip() is     *)
(* then None.strip(); float() of an infinity converts, and int() of it     *)
(* raises OverflowError, which the except ValueError clause does not       *)
(* catch.                                                                  *)
FlatRowRaises(row) ==
    \/ Len(row) \in 1..5
    \/ /\ Len(row) >= 6
       /\ Truthy(FlatGender(Strip(row[2]))) /\ Strip(row[1]) # <<>>
       /\ ~Contains(_normalize_age_group(Strip(row[1])), <<"A", "D", "A", "P">>)
       /\ Truthy(FlatWeightClass(Strip(row[3]), Strip(row[4])))
       /\ Lower(Strip(row[6])) \in { <<"i", "n", "f">>, <<"i", "n", "f", "i", "n", "i", "t", "y">> }

(* The loop body of scrape_sheet for a row that does not raise. *)
FlatRow_KeepsAdaptive(grouped, row) ==
    LET age_group_raw == Strip(row[1])
        gender_raw == Strip(row[2])
        weight_min == Strip(row[3])
        weight_max == Strip(row[4])
        lift_type == Strip(row[5])
        record_value == Strip(row[6])
        gender_ == FlatGender(gender_raw)
        age_group == _normalize_age_group(age_group_raw)
        weight_class == FlatWeightClass(weight_min, weight_max)
        record_int == ParseFloat(record_value)
    IN IF age_group_raw = <<>> \/ gender_raw = <<>> THEN grouped
       ELSE IF ~Truthy(gender_) THEN grouped
       ELSE IF ~Truthy(weight_class) THEN grouped
       ELSE IF FlatLiftField(lift_type) = "" THEN grouped
       ELSE GroupedStore(grouped, age_group, gender_, weight_class,
                         FlatLiftField(lift_type), record_int)

FlatRow(grouped, row) ==
    LET age_group_raw == Strip(row[1])
        gender_raw == Strip(row[2])
        weight_min == Strip(row[3])
        weight_max == Strip(row[4])
        lift_type == Strip(row[5])
        record_value == Strip(row[6])
        gender_ == FlatGender(gender_raw)
        age_group == _normalize_age_group(age_group_raw)
        weight_class == FlatWeightClass(weight_min, weight_max)
        record_int == ParseFloat(record_value)
    IN IF age_group_raw = <<>> \/ gender_raw = <<>> THEN grouped
       ELSE IF ~Truthy(gender_) THEN grouped
       ELSE IF Contains(age_group, <<"A", "D", "A", "P">>) THEN grouped
       ELSE IF ~Truthy(weight_class) THEN grouped
       ELSE IF FlatLiftField(lift_type) = "" THEN grouped
       ELSE GroupedStore(grouped, age_group, gender_, weight_class,
                         FlatLiftField(lift_type), record_int)

(* The rows of the sheet after its header line                             *)
(* ageGroup,gender,bodyWeightMin,bodyWeightMax,lift,record.                *)
FlatRows ==
    { << <<"M", "4", "0">>, <<"M">>, <<"8", "1">>, <<>>, <<"T", "o", "t", "a", "l">>, <<"2", "2", "0">> >>,
      << <<"M", "4", "0">>, <<"M">>, <<"7", "3">>, <<"8", "1">>, <<"S", "n", "a", "t", "c", "h">>, <<"1", "0", "0">> >>,
      << <<"O", "p", "e", "n">>, <<"F">>, <<>>, <<">", "8", "7">>, <<"C", "l", "e", "a", "n", " ", "&", " ", "J", "e", "r", "k">>, <<"1", "2", "0">> >>,
      << <<"J", "R", " ", "A", "D", "A", "P">>, <<"F">>, <<"6", "4">>, <<"7", "1">>, <<"S", "n", "a", "t", "c", "h">>, <<"9", "9", "9">> >>,
      << <<"M", "4", "0", " ", "A", "D", "A", "P">>, <<"M">>, <<"8", "1">>, <<>>, <<"T", "o", "t", "a", "l">>, <<"9", "9", "8">> >>,
      << <<"O", "p", "e", "n", " ", "a", "d", "a", "p">>, <<"F">>, <<>>, <<">", "8", "7">>, <<"S", "n", "a", "t", "c", "h">>, <<"9", "7">> >>,
      << <<"U", "1", "3">>, <<"F">>, <<>>, <<>>, <<"T", "o", "t", "a", "l">>, <<"5", "0">> >>,
      << <<"M", "4", "0">>, <<"M">>, <<"8", "1">>, <<>>, <<"T", "o", "t", "a", "l">>, <<"n", "/", "a">> >>,
      << <<"M", "4", "0">>, <<"M">>, <<"8", "1">>, <<>>, <<"T", "o", "t", "a", "l">>, <<"2", "1", "5">> >>,
      << <<"M", "4", "0">>, <<"M">>, <<"8", "1">>, <<>>, <<"s", "n", "a", "t", "c", "h">>, <<"9", "0">> >>,
      << <<"M", "4", "0">>, <<"M">>, <<"8", "1">>, <<>>, <<"T", "o", "t", "a", "l">>, <<"i", "n", "f">> >>,
      << <<"U", "1", "3">>, <<"F">> >>,
      << >> }

InitFlat ==
    /\ layout = "flat"
    /\ parse_pc = "scan"
    /\ tab_age_category = <<>> /\ tab_gender = <<>>
    /\ all_values = <<>>
    /\ scan = [grouped |-> <<>>, records |-> <<>>]

(* for row in csv_data: one row, or the exception that ends scrape_sheet *)
FlatRowStep ==
    /\ layout = "flat" /\ parse_pc = "scan"
    /\ Len(all_values) < MaxFlatRows
    /\ \E row \in FlatRows :
          /\ all_values' = Append(all_values, row)
          /\ IF FlatRowRaises(row)
             THEN parse_pc' = "raised" /\ scan' = scan
             ELSE parse_pc' = parse_pc
                  /\ scan' = [scan EXCEPT !.grouped = IF row = <<>> THEN @ ELSE FlatRow(@, row)]
    /\ UNCHANGED <<notParseVars, layout, tab_age_category, tab_gender>>

(* After the last row: the records of grouped.items(), returned. *)
FlatReturn ==
    /\ layout = "flat" /\ parse_pc = "scan"
    /\ scan' = [scan EXCEPT !.records = scan.grouped]
    /\ parse_pc' = "done"
    /\ UNCHANGED <<notParseVars, layout, tab_age_category, tab_gender, all_values>>

NextFlat ==
    \/ FlatRowStep
    \/ FlatReturn

-----------------------------------------------------------------------------
(* scraper.py: parse_age_subdivision on its own, over the section texts of *)
(* the tabs.                                                               *)

(* age_category, the base category of the tab being parsed *)
AgeContexts == { <<"Y", "o", "u", "t", "h">>, <<"J", "u", "n", "i", "o", "r">>, <<"S", "e", "n", "i", "o", "r">>, <<"M", "a", "s", "t", "e", "r", "s">> }

LowerAges == { <<"1", "4">>, <<"1", "6">>, <<"3", "5">>, <<"4", "0">> }
UpperAges == { <<"1", "5">>, <<"1", "7">>, <<"3", "9">>, <<"4", "4">> }
Hyphens == { <<"-">>, <<" ", "-", " ">>, <<"-", " ">>, <<" ", "-">> }
Paddings == { <<>>, <<" ">> }

(* The first-column texts handed to parse_age_subdivision. *)
AgeTexts ==
    { p \o a \o h \o b \o p : p \in Paddings, a \in LowerAges, h \in Hyphens, b \in UpperAges }
        \cup { <<"1", "3", " ", "a", "n", "d", " ", "U", "n", "d", "e", "r">>, <<"T", "o", "t", "a", "l">>, <<"3", "5", "-", "3", "9", "-", "4", "4">>, <<"O", "p", "e", "n">> }

InitAge ==
    /\ layout = "age"
    /\ parse_pc = "scan"
    /\ tab_age_category \in AgeContexts
    /\ tab_gender = <<>>
    /\ \E text \in AgeTexts : all_values = << << text >> >>
    /\ scan = [parsed |-> NoText]

(* current_age_category = parse_age_subdivision(first_col) *)
ApplyAge ==
    /\ layout = "age" /\ parse_pc = "scan"
    /\ scan' = [parsed |-> parse_age_subdivision(all_values[1][1], tab_age_category)]
    /\ parse_pc' = "done"
    /\ UNCHANGED <<notParseVars, layout, tab_age_category, tab_gender, all_values>>

-----------------------------------------------------------------------------
(* scraper_pawv.py: _normalize_weight_class on its own, over the texts of  *)
(* the weight-class header cells.                                          *)

WeightNumbers == { <<"4", "0">>, <<"6", "5">>, <<"8", "1">>, <<"1", "0", "9">>, <<"1", "1", "0">> }
WeightPrefixes == { <<>>, <<"+">>, <<" ", "+">> }
WeightSuffixes == { <<>>, <<"k", "g">>, <<"+">>, <<"+", "k", "g">>, <<" ", "k", "g">>, <<"K", "G">>, <<"k", "g", " ">> }

(* The first-column texts handed to _normalize_weight_class. *)
WeightTexts ==
    { p \o n \o s : p \in WeightPrefixes, n \in WeightNumbers, s \in WeightSuffixes }

InitWeight ==
    /\ layout = "weight"
    /\ parse_pc = "scan"
    /\ tab_age_category = <<>> /\ tab_gender = <<>>
    /\ \E text \in WeightTexts : all_values = << << text >> >>
    /\ scan = [parsed |-> NoText]

(* weight_class = self._normalize_weight_class(first_col) *)
ApplyWeight ==
    /\ layout = "weight" /\ parse_pc = "scan"
    /\ scan' = [parsed |-> _normalize_weight_class(all_values[1][1])]
    /\ parse_pc' = "done"
    /\ UNCHANGED <<notParseVars, layout, tab_age_category, tab_gender, all_values>>

-----------------------------------------------------------------------------
(* scraper_tnky.py: scrape_sheet, the horizontal layout with the weight    *)
(* classes as columns and one triple of rows (value, name, date) per lift. *)

(* _normalize_age_category(section_header): <<age category, gender>>. *)
tnky_normalize_age_category(section_header) ==
    LET header == Upper(Strip(section_header))
        gender_ == IF Contains(header, <<"W", "O", "M", "E", "N">>) THEN <<"W", "o", "m", "e", "n">>
                   ELSE IF Contains(header, <<"M", "E", "N">>) THEN <<"M", "e", "n">>
                   ELSE NoText
    IN IF gender_ = NoText THEN NoHeader
       ELSE IF Contains(header, <<"1", "3">>) /\ Contains(header, <<"U", "N", "D", "E", "R">>) THEN << <<"U", "1", "3">>, gender_ >>
       ELSE IF Contains(header, <<"1", "4", "-", "1", "7">>) \/ Contains(header, <<"1", "4", " ", "-", " ", "1", "7">>) THEN << <<"U", "1", "7">>, gender_ >>
       ELSE IF Contains(header, <<"S", "E", "N", "I", "O", "R">>) THEN << <<"S", "e", "n", "i", "o", "r">>, gender_ >>
       ELSE IF Contains(header, <<"J", "U", "N", "I", "O", "R">>) THEN << <<"J", "u", "n", "i", "o", "r">>, gender_ >>
       ELSE IF Contains(header, <<"M", "A", "S", "T", "E", "R">>) /\ RangeMatches(header) # {}
       THEN << <<"M", "a", "s", "t", "e", "r", "s", " ">> \o RangeLower(header), gender_ >>
       ELSE NoHeader

(* re.search(r'(\d+\+?)\s*KG', cell, re.IGNORECASE): the starts of the     *)
(* digit runs that an optional "+", whitespace and KG follow.              *)
PlusEnd(cell, a) ==
    LET e == DigitRunEnd(cell, a)
    IN IF e < Len(cell) /\ cell[e + 1] = "+" THEN e + 1 ELSE e

TnkyKgMatches(cell) ==
    { a \in DigitRunStarts(cell) :
        LET d == SkipSpaces(cell, PlusEnd(cell, a) + 1)
        IN d + 1 <= Len(cell) /\ Upper(SubSeq(cell, d, d + 1)) = <<"K", "G">> }

(* The weight class of each cell after the first column, None (NoText)     *)
(* for a cell without one.                                                 *)
_parse_weight_classes(row) ==
    [k \in 1..(Len(row) - 1) |->
        LET cell == Strip(row[k + 1])
        IN IF cell # <<>> /\ Contains(Upper(cell), <<"K", "G">>) /\ TnkyKgMatches(cell) # {}
           THEN SubSeq(cell, Min(TnkyKgMatches(cell)), PlusEnd(cell, Min(TnkyKgMatches(cell))))
           ELSE NoText]

(* The dict {weight_class: value} read from the value row of a triple: a   *)
(* later column of the same weight class replaces an earlier one; an empty *)
(* or non-numeric cell sets nothing.                                       *)
_parse_lift_rows(value_row, weight_classes) ==
    LET filled == { col \in 1..Len(weight_classes) :
                      /\ Truthy(weight_classes[col])
                      /\ col + 1 <= Len(value_row)
                      /\ isdigit(Strip(value_row[col + 1])) }
    IN [wc \in { weight_classes[col] : col \in filled } |->
           ToNat(Strip(value_row[Max({ col \in filled : weight_classes[col] = wc }) + 1]))]

(* dict.get(key) *)
Get(dict, key) == IF key \in DOMAIN dict THEN dict[key] ELSE None

(* "Combine into records": one record per weight class of the list. *)
SectionRecords(grid, w, weight_classes, age_category, gender_) ==
    LET snatch_data == _parse_lift_rows(grid[w + 1], weight_classes)
        cj_data == _parse_lift_rows(grid[w + 4], weight_classes)
        total_data == _parse_lift_rows(grid[w + 7], weight_classes)
        found == SelectSeq(weight_classes, Truthy)
    IN [n \in 1..Len(found) |->
           MkRecord(wso_name, age_category, gender_, found[n],
                    Get(snatch_data, found[n]), Get(cj_data, found[n]),
                    Get(total_data, found[n]))]

(* One iteration of "while i < len(rows)"; scan.i is the 0-based i. *)
HorizontalRow(st, grid) ==
    LET row == grid[st.i + 1]
        full_header == Strip(row[1]) \o <<" ">> \o Cell(row, 2)
        header == tnky_normalize_age_category(full_header)
        has_weights_in_current ==
            \E k \in 2..Min({ 9, Len(row) }) : Contains(Upper(row[k]), <<"K", "G">>)
        w == IF has_weights_in_current \/ st.i + 1 >= Len(grid) THEN st.i + 1 ELSE st.i + 2
        weight_classes == IF ~has_weights_in_current /\ st.i + 1 >= Len(grid)
                          THEN << >>
                          ELSE _parse_weight_classes(grid[w])
    IN IF row = << >> \/ row[1] = << >> THEN [st EXCEPT !.i = @ + 1]
       ELSE IF ~(Truthy(header[1]) /\ Truthy(header[2])) THEN [st EXCEPT !.i = @ + 1]
       ELSE IF w + 9 <= Len(grid)
       THEN [i |-> w + 9,
             records |-> st.records \o SectionRecords(grid, w, weight_classes, header[1], header[2]),
             current_age_category |-> header[1], current_gender |-> header[2]]
       ELSE [st EXCEPT !.i = w, !.current_age_category = header[1],
                       !.current_gender = header[2]]

(* The rows of the sheet: a section is its header, its weight row unless   *)
(* the header holds the weight classes, and the three triples.             *)
TnkyHeaders ==
    { << << <<"Y", "O", "U", "T", "H", ":", " ", "W", "O", "M", "E", "N">>, <<>>, <<"1", "3", " ", "&", " ", "U", "n", "d", "e", "r", " ", "4", "4", " ", "K", "G">>, <<"4", "8", " ", "K", "G">> >> >>,
      << << <<"M", "A", "S", "T", "E", "R", "S", ":", " ", "M", "E", "N">>, <<>>, <<"3", "5", "-", "3", "9", " ", "y", "e", "a", "r", "s", " ", "o", "l", "d">> >>, << <<>>, <<"8", "1", " ", "K", "G">>, <<"8", "7", "+", " ", "K", "G">> >> >>,
      << << <<"S", "E", "N", "I", "O", "R", "S", ":", " ", "M", "E", "N">>, <<>>, <<"1", "5", " ", "y", "e", "a", "r", "s", " ", "o", "l", "d", " ", "<">> >>, << <<>>, <<"8", "7", " ", "K", "G">>, <<"+", "8", "7", " ", "K", "G">> >> >>,
      << << <<"J", "U", "N", "I", "O", "R", " ", "W", "O", "M", "E", "N">>, <<>>, <<>> >>, << <<>>, <<"N", "o", "t", "e", "s">>, <<"6", "4", "k", "g">>, <<"7", "1", " ", "K", "G">> >> >> }

TnkySnatchRows ==
    { << <<"S", "N", "A", "T", "C", "H">>, <<"1", "0", "0">>, <<"1", "1", "0">>, <<"1", "2", "0">> >>,
      << <<"S", "N", "A", "T", "C", "H">>, <<>>, <<"9", "5">> >>,
      << <<"S", "N", "A", "T", "C", "H">> >> }

TnkyCjRows ==
    { << <<"C", "&", "J">>, <<"1", "3", "0">>, <<"1", "4", "0">>, <<"1", "5", "0">> >>,
      << <<"C", "&", "J">>, <<"n", "/", "a">>, <<"0">> >> }

TnkyTotalRow == << <<"T", "O", "T", "A", "L">>, <<"2", "3", "0">>, <<"2", "5", "0">>, <<"2", "7", "0">> >>

TnkyNameRow == << <<"N", "a", "m", "e">>, <<"A", "n", "n">>, <<"9", "0", "0">>, <<"C", "y">> >>

TnkyDateRow == << <<"D", "a", "t", "e">>, <<"2", "0", "2", "0">>, <<"2", "0", "2", "1">>, <<"2", "0", "2", "2">> >>

(* What follows the first section: nothing (its last date row is then      *)
(* missing from the sheet), the last date row, or a further section.      *)
TnkyEndings ==
    { << >>,
      << TnkyDateRow >>,
      << TnkyDateRow, << <<"W", "O", "M", "E", "N">>, <<>>, <<"1", "4", "-", "1", "7", " ", "Y", "O", " ", "5", "5", " ", "K", "G">> >>,
         << <<"S", "N", "A", "T", "C", "H">>, <<>>, <<"6", "0">> >>, TnkyNameRow, TnkyDateRow,
         << <<"C", "&", "J">>, <<>>, <<"7", "5">> >>, TnkyNameRow, TnkyDateRow,
         << <<"T", "O", "T", "A", "L">>, <<>>, <<"1", "3", "5">> >>, TnkyNameRow, TnkyDateRow >> }

TnkyGrids ==
    { << << <<"T", "N", "-", "K", "Y", " ", "R", "e", "c", "o", "r", "d", "s">> >> >> \o header
         \o << snatch, TnkyNameRow, TnkyDateRow, cj, TnkyNameRow, TnkyDateRow,
               TnkyTotalRow, TnkyNameRow >>
         \o ending :
        header \in TnkyHeaders, snatch \in TnkySnatchRows, cj \in TnkyCjRows,
        ending \in TnkyEndings }

InitHorizontal ==
    /\ layout = "horizontal"
    /\ parse_pc = "scan"
    /\ tab_age_category = <<>> /\ tab_gender = <<>>
    /\ all_values \in TnkyGrids
    /\ scan = [i |-> 0, records |-> << >>,
               current_age_category |-> NoText, current_gender |-> NoText]

HorizontalStep ==
    /\ layout = "horizontal" /\ parse_pc = "scan"
    /\ scan.i < Len(all_values)
    /\ scan' = HorizontalRow(scan, all_values)
    /\ UNCHANGED <<notParseVars, layout, parse_pc, tab_age_category, tab_gender, all_values>>

HorizontalReturn ==
    /\ layout = "horizontal" /\ parse_pc = "scan"
    /\ scan.i >= Len(all_values)
    /\ parse_pc' = "done"
    /\ UNCHANGED <<notParseVars, layout, tab_age_category, tab_gender, all_values, scan>>

NextHorizontal ==
    \/ HorizontalStep
    \/ HorizontalReturn

-----------------------------------------------------------------------------
(* The specifications: one per part of the program.                        *)

Init == InitRun /\ ConsIdle /\ ParseIdle /\ SheetIdle

Next == NextRun

Spec == Init /\ [][NextRun]_vars

InitConsolidate == RunIdle /\ InitCons /\ ParseIdle /\ SheetIdle

SpecConsolidate == InitConsolidate /\ [][NextCons]_vars

InitVerticalParse == RunIdle /\ ConsIdle /\ InitVertical /\ SheetIdle

SpecVertical == InitVerticalParse /\ [][NextVertical]_vars

InitTableParse == RunIdle /\ ConsIdle /\ InitTable /\ SheetIdle

SpecTable == InitTableParse /\ [][NextTableParse]_vars

InitSheetScrape == RunIdle /\ ConsIdle /\ ParseIdle /\ InitSheet

SpecSheet == InitSheetScrape /\ [][NextSheet]_vars

InitFlatParse == RunIdle /\ ConsIdle /\ InitFlat /\ SheetIdle

SpecFlat == InitFlatParse /\ [][NextFlat]_vars

InitAgeParse == RunIdle /\ ConsIdle /\ InitAge /\ SheetIdle

SpecAge == InitAgeParse /\ [][ApplyAge]_vars

InitWeightParse == RunIdle /\ ConsIdle /\ InitWeight /\ SheetIdle

SpecWeight == InitWeightParse /\ [][ApplyWeight]_vars

InitHorizontalParse == RunIdle /\ ConsIdle /\ InitHorizontal /\ SheetIdle

SpecHorizontal == InitHorizontalParse /\ [][NextHorizontal]_vars

-----------------------------------------------------------------------------
(* Properties of the reconciliation run (specification Spec).              *)

Last(seq) == seq[Len(seq)]

(* The classification of a fresh record against a table. *)
Classification(table, record) ==
    IF Select(table, record) = {} THEN "Insert"
    ELSE IF \E row \in Select(table, record) : \E field \in LiftFields :
                row[field] # record[field]
         THEN "Update"
         ELSE "Unchanged"

(* C1: each record of the batch, in order, is classified against the table  *)
(* as it stands when the record is processed: no row with its key means    *)
(* Insert, a row differing in a lift field (None differs from a number)    *)
(* means Update, otherwise Unchanged; an Unchanged record causes no write  *)
(* and no entry in the inserted or updated lists.                          *)
C1_ClassifiesAgainstCurrentStore ==
    [][ (pc = "reconcile" /\ idx <= Len(records) /\ idx' = idx + 1) =>
          LET record == records[idx]
              class  == Classification(store, record)
          IN IF dry_run
             THEN /\ class = "Insert" <=>
                        comparison'.to_insert = Append(comparison.to_insert, record)
                  /\ class = "Update" <=>
                        Len(comparison'.to_update) = Len(comparison.to_update) + 1
                  /\ class = "Update" => Last(comparison'.to_update).record = record
                  /\ class = "Unchanged" <=>
                        /\ comparison'.to_insert = comparison.to_insert
                        /\ comparison'.to_update = comparison.to_update
             ELSE /\ class = "Insert" <=>
                        /\ Len(changes'.inserted) = Len(changes.inserted) + 1
                        /\ Last(changes'.inserted) = record
                        /\ writes' = Append(writes, [op |-> "insert", id |-> 0, record |-> record])
                  /\ class = "Update" <=>
                        /\ Len(changes'.updated) = Len(changes.updated) + 1
                        /\ KeyOf(Last(changes'.updated)) = KeyOf(record)
                        /\ Len(writes') = Len(writes) + 1
                        /\ Last(writes').op = "update"
                        /\ Last(writes').record = record
                  /\ class = "Unchanged" <=>
                        /\ store' = store
                        /\ writes' = writes
                        /\ changes' = changes
      ]_vars

(* Witness of C1: a batch of two records with the same key was upserted     *)
(* against a table without that key: the first was inserted and the second *)
(* was classified against the row the first one created.                   *)
C1_Witness ==
    /\ ~dry_run
    /\ pc = "done"
    /\ Len(records) = 2
    /\ KeyOf(records[1]) = KeyOf(records[2])
    /\ Len(changes.inserted) = 1
    /\ Len(changes.updated) = 1

(* C2: every Update of upsert_records records a changes mapping whose keys  *)
(* are exactly the lift fields whose stored value differs from the fresh   *)
(* value, each holding old = the stored and new = the fresh value.         *)
C2_ChangesExactlyTheDifferingFields ==
    [][ (scraper \notin ReturnListScrapers
           /\ Len(changes'.updated) = Len(changes.updated) + 1) =>
          LET record == records[idx]
              entry  == Last(changes'.updated)
          IN /\ Select(store, record) # {}
             /\ \A row \in Select(store, record) :
                  /\ DOMAIN entry.changes =
                        { field \in LiftFields : row[field] # record[field] }
                  /\ \A field \in DOMAIN entry.changes :
                        /\ entry.changes[field].old = row[field]
                        /\ entry.changes[field].new = record[field]
      ]_vars

(* Witness of C2: stored (100, None, None) against fresh (100, 120, 220)    *)
(* was recorded as a change of cj_record and total_record only.            *)
C2_Witness ==
    /\ scraper \notin ReturnListScrapers
    /\ changes.updated # <<>>
    /\ existing_record # NoRow
    /\ existing_record.snatch_record = 100
    /\ existing_record.cj_record = None
    /\ existing_record.total_record = None
    /\ Last(changes.updated).changes =
         ("cj_record" :> [old |-> None, new |-> 120])
            @@ ("total_record" :> [old |-> None, new |-> 220])

(* C3 as stated: the reconciliation step of a real run issues no insert and *)
(* no update and leaves every stored row as it was.                        *)
C3_ReconciliationWritesNothing ==
    [][ (pc = "reconcile" /\ ~dry_run) => (store' = store /\ writes' = writes) ]_vars

(* C3 as amended: upsert_records / upsert_to_supabase itself issues the     *)
(* writes: one insert per record it reports inserted and one update per    *)
(* record it reports updated, so the table changes exactly when it reports *)
(* a change; only the dry-run comparison is free of writes.                *)
C3_UpsertIssuesTheWrites ==
    [][ (pc = "reconcile" /\ idx <= Len(records) /\ idx' = idx + 1) =>
          IF dry_run
          THEN store' = store /\ writes' = writes
          ELSE /\ Len(writes') - Len(writes) =
                    (Len(changes'.inserted) - Len(changes.inserted))
                      + (Len(changes'.updated) - Len(changes.updated))
               /\ (store' # store) <=> (changes' # changes)
               /\ (Len(changes'.inserted) > Len(changes.inserted)) =>
                    /\ Last(writes').op = "insert"
                    /\ \E row \in store' \ store : KeyOf(row) = KeyOf(records[idx])
               /\ (Len(changes'.updated) > Len(changes.updated)) =>
                    /\ Last(writes').op = "update"
                    /\ \E row \in store' \ store : row.id = Last(writes').id
      ]_vars

(* Witness of C3: a real run that reported one insert and one update and    *)
(* issued both writes.                                                     *)
C3_Witness ==
    /\ ~dry_run
    /\ pc = "done"
    /\ Len(changes.inserted) = 1
    /\ Len(changes.updated) = 1
    /\ Len(writes) = 2
    /\ writes[1].op # writes[2].op

(* C4: a dry run issues no insert, no update and no notification, and the   *)
(* table holds the same rows after every step of it.                       *)
C4_DryRunOnlyReads ==
    [][ dry_run =>
          /\ store' = store
          /\ writes' = writes /\ writes = <<>>
          /\ notifications' = notifications /\ notifications = 0
          /\ changes' = changes
      ]_vars

(* Witness of C4: a finished dry run that found a record to insert and a    *)
(* record to update.                                                       *)
C4_Witness ==
    /\ dry_run
    /\ pc = "done"
    /\ comparison.to_insert # <<>>
    /\ comparison.to_update # <<>>
    /\ writes = <<>>
    /\ notifications = 0

-----------------------------------------------------------------------------
(* Properties of the consolidator (specification SpecConsolidate).         *)

KeysOf(list) == { KeyOf(list[k]) : k \in 1..Len(list) }

GroupOf(list, key) == { k \in 1..Len(list) : KeyOf(list[k]) = key }

(* v is the largest non-None value of the field in the group, or None when  *)
(* the group holds no value for the field.                                 *)
IsBestOf(v, list, group, field) ==
    IF \A k \in group : list[k][field] = None
    THEN v = None
    ELSE /\ \E k \in group : list[k][field] = v
         /\ v # None
         /\ \A k \in group : list[k][field] <= v

IsConsolidationOf(out, list) ==
    /\ KeysOf(out) = KeysOf(list)
    /\ UniqueKeys(out)
    /\ \A n \in 1..Len(out) :
         LET group == GroupOf(list, KeyOf(out[n]))
         IN IF Cardinality(group) = 1
            THEN \A k \in group : out[n] = list[k]
            ELSE \A field \in LiftFields : IsBestOf(out[n][field], list, group, field)

(* C5: _consolidate_records returns exactly one record per natural key of   *)
(* its input and none for another key; a key with several records gets,    *)
(* for each lift field on its own, the largest non-None value of the group *)
(* (None when there is none); a key with one record gets that record.      *)
C5_OneRecordPerKeyWithFieldMaxima ==
    cons_pc \in { "first", "second" } => IsConsolidationOf(consolidated, all_records)

(* Witness of C5: a key with two records whose merged record takes its      *)
(* snatch from one and its clean and jerk from the other, next to a key    *)
(* with a single record.                                                   *)
C5_Witness ==
    /\ cons_pc = "first"
    /\ Len(all_records) = 3
    /\ Len(consolidated) = 2
    /\ \E n \in 1..2 :
         /\ consolidated[n].snatch_record = 95
         /\ consolidated[n].cj_record = 120
         /\ consolidated[n].total_record = 203
         /\ \A k \in 1..3 : all_records[k] # consolidated[n]

(* C6: two orderings of the same records consolidate to the same merged     *)
(* record for every natural key.                                           *)
C6_OrderIndependent ==
    cons_pc = "second" =>
        { consolidated[k] : k \in 1..Len(consolidated) }
            = { consolidated2[k] : k \in 1..Len(consolidated2) }

(* Witness of C6: a reordering that moves a key's records and changes the   *)
(* order of the output list, with a group that needed merging.             *)
C6_Witness ==
    /\ cons_pc = "second"
    /\ reordered # all_records
    /\ consolidated # consolidated2
    /\ Len(consolidated) < Len(all_records)
    /\ \E n \in 1..Len(consolidated) : \A k \in 1..Len(all_records) :
          all_records[k] # consolidated[n]

-----------------------------------------------------------------------------
(* Properties of the vertical parser (specification SpecVertical).         *)

(* The rows of the scenario, after the row that makes U13 the current age  *)
(* subdivision of a Youth Women tab.                                       *)
ScenarioRows ==
    << << <<"1", "3", " ", "a", "n", "d", " ", "U", "n", "d", "e", "r">> >>,
       << <<"4", "0", "k", "g">> >>,
       << <<"S", "n", "a", "t", "c", "h">>, <<>>, <<>>, <<"5", "5">> >>,
       << <<"C", "l", "e", "a", "n", " ", "&", " ", "J", "e", "r", "k">>, <<>>, <<>>, <<"7", "0">> >>,
       << <<"T", "o", "t", "a", "l">>, <<>>, <<>>, <<"1", "2", "5">> >> >>

ScenarioParsed ==
    /\ layout = "vertical" /\ parse_pc = "done"
    /\ tab_age_category = <<"Y", "o", "u", "t", "h">> /\ tab_gender = <<"W", "o", "m", "e", "n">>
    /\ all_values = ScenarioRows

(* C8: with gender Women and current age subdivision U13, the rows         *)
(* ["40kg"], ["Snatch","","","55"], ["Clean & Jerk","","","70"],           *)
(* ["Total","","","125"] yield exactly one record, U13 / Women, keyed by   *)
(* the bare weight class "40", with snatch 55, clean and jerk 70 and total *)
(* 125.                                                                    *)
C8_ScenarioYieldsBareWeightClass ==
    ScenarioParsed =>
        scan.records = << MkRecord(wso_name, <<"U", "1", "3">>, <<"W", "o", "m", "e", "n">>, <<"4", "0">>, 55, 70, 125) >>

(* C9: a lift cell holding "0" gives an absent lift field, as an empty     *)
(* cell does: no record the parser emits carries a lift value of zero.     *)
C9_ZeroCellIsAbsent ==
    \A k \in 1..Len(scan.records) :
        /\ scan.records[k].snatch_record # 0
        /\ scan.records[k].cj_record # 0
        /\ scan.records[k].total_record # 0
-----------------------------------------------------------------------------
(* Properties of the table-document parser (specification SpecTable).      *)

(* C10: no parser emits a partial record: every emitted record has a set   *)
(* weight class, age category and gender, and a lift value read while the  *)
(* current weight class or the current age category was unset never       *)
(* reaches a record.                                                       *)
C10_NoRecordFromUnsetReads ==
    /\ \A k \in 1..Len(scan.records) :
          /\ Truthy(scan.records[k].weight_class)
          /\ Truthy(scan.records[k].age_category)
          /\ Truthy(scan.records[k].gender)
    /\ ~scan.emitted_unset
-----------------------------------------------------------------------------
(* Properties of the hand-over from scrape_sheet (specification SpecSheet). *)

MissingConfiguration == ~dry_run /\ (~env_supabase \/ ~env_discord)

StoppedAtStartup ==
    /\ pc \in {"start", "failed"}
    /\ records = << >>
    /\ writes = << >>
    /\ notifications = 0

C13_AnyMissingConfigurationStopsAtStartup == MissingConfiguration => StoppedAtStartup

(***************************************************************************)
(* C13: missing storage credentials stop every scraper's non-dry run at    *)
(* startup, before any fetch, with no store write and no notification; a   *)
(* missing webhook does the same in the vertical, flat, Florida, New       *)
(* Jersey and TN/KY scrapers; in the PA/WV and New England scrapers a run  *)
(* without a webhook proceeds and only its notification is never posted.   *)
(***************************************************************************)
C13_MissingConfigurationStopsAtStartup ==
    /\ (~dry_run /\ ~env_supabase) => StoppedAtStartup
    /\ (~dry_run /\ ~env_discord /\ scraper \notin ReturnListScrapers) => StoppedAtStartup
    /\ (~dry_run /\ ~env_discord /\ scraper \in ReturnListScrapers) => notifications = 0

C13_Witness ==
    /\ pc = "failed"
    /\ ~dry_run
    /\ env_supabase
    /\ ~env_discord
    /\ scraper \notin ReturnListScrapers
(***************************************************************************)
(* C11: no layout parser raises on malformed content; here the flat-row    *)
(* parser, over rows that are empty, short, without weight bounds or with  *)
(* a non-numeric value: the parser never ends by an exception.             *)
(***************************************************************************)
C11_FlatParserNeverRaises == layout = "flat" => parse_pc # "raised"

ScenarioFlatRow == << <<"M", "4", "0">>, <<"M">>, <<"8", "1">>, <<>>, <<"T", "o", "t", "a", "l">>, <<"2", "2", "0">> >>

IsFlatRowStep ==
    /\ layout = "flat" /\ parse_pc = "scan" /\ parse_pc' = "scan"
    /\ Len(all_values') = Len(all_values) + 1
    /\ Len(Last(all_values')) = 6

(* The records of grouped that the step created or changed. *)
Touched ==
    { k \in 1..Len(scan'.grouped) :
          k > Len(scan.grouped) \/ scan'.grouped[k] # scan.grouped[k] }

DerivedWeightClass(weight_min, weight_max) ==
    IF weight_max # <<>>
    THEN IF \E k \in 1..Len(weight_max) : weight_max[k] = ">"
         THEN SelectSeq(weight_max, LAMBDA c : c # ">") \o <<"+">>
         ELSE weight_max
    ELSE weight_min \o <<"+">>

(***************************************************************************)
(* C16: the weight class a flat row files its value under is its           *)
(* bodyWeightMax (with ">" removed and "+" appended when ">" was there)    *)
(* when that is present, else its bodyWeightMin followed by "+"; a row     *)
(* with neither changes no record; and the row M40 / M / min 81 / no max / *)
(* Total / 220 alone gives the one record (Masters 40, Men, 81+) with      *)
(* total_record 220.                                                       *)
(***************************************************************************)
C16_FlatWeightClassDerivation ==
    /\ [][IsFlatRowStep =>
            LET row == Last(all_values')
                weight_min == Strip(row[3])
                weight_max == Strip(row[4])
            IN /\ (weight_min = <<>> /\ weight_max = <<>>) => scan'.grouped = scan.grouped
               /\ Len(scan'.grouped) >= Len(scan.grouped)
               /\ \A k \in Touched :
                     scan'.grouped[k].weight_class = DerivedWeightClass(weight_min, weight_max)]_vars
    /\ []((layout = "flat" /\ parse_pc = "done" /\ all_values = << ScenarioFlatRow >>)
            => scan.records = << MkRecord(wso_name, <<"M", "a", "s", "t", "e", "r", "s", " ", "4", "0">>, <<"M", "e", "n">>, <<"8", "1", "+">>,
                                          None, None, 220) >>)

C16_Witness ==
    /\ layout = "flat" /\ parse_pc = "done"
    /\ Len(all_values) = 2
    /\ all_values[1] = ScenarioFlatRow
    /\ Len(scan.records) = 2
    /\ scan.records[1].weight_class = <<"8", "1", "+">> /\ scan.records[1].total_record = 220
    /\ scan.records[2].weight_class = <<"8", "7", "+">> /\ scan.records[2].cj_record = 120

CarriesAdaptiveMarker(age_group) ==
    \E k \in 1..(Len(age_group) - 3) : SubSeq(age_group, k, k + 3) = <<"A", "D", "A", "P">>

(***************************************************************************)
(* C17: a flat row whose age group carries the ADAP marker is dropped: it  *)
(* changes no record, no record has an age_category with the marker, and   *)
(* the values of the dropped rows (999 and 998, which only they carry)     *)
(* appear in no record.                                                    *)
(***************************************************************************)
C17_AdaptiveRowsAreDropped ==
    /\ [][(IsFlatRowStep /\ CarriesAdaptiveMarker(Last(all_values')[1]))
            => scan'.grouped = scan.grouped]_vars
    /\ [](layout = "flat" =>
            \A k \in 1..Len(scan.grouped) :
               /\ ~CarriesAdaptiveMarker(scan.grouped[k].age_category)
               /\ \A f \in LiftFields : scan.grouped[k][f] \notin {999, 998})
    /\ []((layout = "flat" /\ parse_pc = "done") => scan.records = scan.grouped)

C17_Witness ==
    /\ layout = "flat" /\ parse_pc = "done"
    /\ Len(all_values) = 3
    /\ Len(all_values[2]) = 6
    /\ CarriesAdaptiveMarker(all_values[2][1])
    /\ all_values[2][6] = <<"9", "9", "8">>
    /\ all_values[1] = ScenarioFlatRow
    /\ Len(scan.records) = 2
Men == <<"M", "e", "n">>
Women == <<"W", "o", "m", "e", "n">>

(* A row of a tab was handled by the side-by-side loop. *)
IsSideRowStep == sheet_pc = "rows" /\ row_i' = row_i + 1

HandledRow == rows[row_i + 1]

NewSideRecords ==
    SubSeq(tab_state'.records, Len(tab_state.records) + 1, Len(tab_state'.records))

(* The most recent class not ending in "+" among the records of a gender. *)
LastClosed(list, gen) ==
    LET closed == { k \in 1..Len(list) :
                       /\ list[k].gender = gen
                       /\ list[k].weight_class[Len(list[k].weight_class)] # "+" }
    IN IF closed = {} THEN NoText
       ELSE list[CHOOSE k \in closed : \A j \in closed : j <= k].weight_class

(* The 0-based column of a gender's weight-class cell. *)
WeightColumn(gen) ==
    IF sheet_scraper = "florida" THEN (IF gen = Men THEN 0 ELSE 6)
    ELSE IF SheetTabs(sheet_scraper)[tab_index] = <<"M", "a", "s", "t", "e", "r", "s", " ", "8", "0">> THEN 1
    ELSE IF gen = Women THEN 1 ELSE 8

(* The sides of the handled row that the parser reads. *)
SidesRead ==
    IF sheet_scraper = "florida"
    THEN IF Len(HandledRow) >= 10
         THEN { gen \in {Men, Women} :
                   Cell(HandledRow, WeightColumn(gen) + 1) = <<"S", "n", "a", "t", "c", "h">> }
         ELSE {}
    ELSE IF Len(HandledRow) >= 14 /\ row_i > 0
    THEN IF SheetTabs(sheet_scraper)[tab_index] = <<"M", "a", "s", "t", "e", "r", "s", " ", "8", "0">> THEN {Men} ELSE {Men, Women}
    ELSE {}

(***************************************************************************)
(* C14: in the Florida and New Jersey parsers a side with a blank          *)
(* weight-class cell gets the class W+ where W is the most recent class    *)
(* not ending in "+" emitted for that gender in the tab, and no record     *)
(* when there is no such class; the two trackers always hold exactly that  *)
(* class, each for its own gender.                                         *)
(***************************************************************************)
C14_PlusClassFromLastClosed ==
    /\ [](sheet_pc = "rows" =>
             /\ tab_state.last_men_weight = LastClosed(tab_state.records, Men)
             /\ tab_state.last_women_weight = LastClosed(tab_state.records, Women))
    /\ [][IsSideRowStep =>
            /\ \A k \in 1..Len(NewSideRecords) :
                  LET r == NewSideRecords[k]
                  IN Cell(HandledRow, WeightColumn(r.gender)) = <<>> =>
                        /\ Truthy(LastClosed(tab_state.records, r.gender))
                        /\ r.weight_class = LastClosed(tab_state.records, r.gender) \o <<"+">>
            /\ \A gen \in SidesRead :
                  (Cell(HandledRow, WeightColumn(gen)) = <<>>
                     /\ Truthy(LastClosed(tab_state.records, gen)))
                  => \E k \in 1..Len(NewSideRecords) :
                        /\ NewSideRecords[k].gender = gen
                        /\ NewSideRecords[k].weight_class
                              = LastClosed(tab_state.records, gen) \o <<"+">>]_vars

C14_Witness ==
    /\ sheet_pc = "rows" /\ row_i = 3
    /\ Cell(rows[3], WeightColumn(Men)) = <<>>
    /\ tab_state.last_men_weight = <<"8", "1">>
    /\ \E j, k \in 1..Len(tab_state.records) :
          /\ j < k
          /\ tab_state.records[j].gender = Men /\ tab_state.records[j].weight_class = <<"8", "1", "+">>
          /\ tab_state.records[k].gender = Men /\ tab_state.records[k].weight_class = <<"8", "1", "+">>
HoldsSnatchMarker(gen) == Cell(HandledRow, WeightColumn(gen) + 1) = <<"S", "n", "a", "t", "c", "h">>

(***************************************************************************)
(* C15: in the Florida parser, a row with the "Snatch" marker at one       *)
(* gender's column only gives no record for the other gender and leaves    *)
(* the other gender's last-weight tracker as it was.                       *)
(***************************************************************************)
C15_UnmarkedSideIsSkipped ==
    [][(IsSideRowStep /\ sheet_scraper = "florida" /\ Len(HandledRow) >= 10) =>
          /\ (HoldsSnatchMarker(Men) /\ ~HoldsSnatchMarker(Women)) =>
                /\ \A k \in 1..Len(NewSideRecords) : NewSideRecords[k].gender # Women
                /\ tab_state'.last_women_weight = tab_state.last_women_weight
          /\ (HoldsSnatchMarker(Women) /\ ~HoldsSnatchMarker(Men)) =>
                /\ \A k \in 1..Len(NewSideRecords) : NewSideRecords[k].gender # Men
                /\ tab_state'.last_men_weight = tab_state.last_men_weight]_vars
(* The number in a lift cell, None for a cell that is empty, zero or not a *)
(* number.                                                                 *)
LiftValue(row, k) ==
    LET cell == Cell(row, k)
    IN IF cell # <<>> /\ (\A j \in 1..Len(cell) : IsDigitChar(cell[j])) /\ ToNat(cell) # 0
       THEN ToNat(cell)
       ELSE None

(* The record a side of a row gives for the weight class wc. *)
SideRecord(row, col, gen, wc) ==
    MkRecord(wso_name, SheetTabs(sheet_scraper)[tab_index], gen, wc,
             LiftValue(row, col + 3), LiftValue(row, col + 4), LiftValue(row, col + 5))

IsNewJerseyDataRowStep ==
    /\ IsSideRowStep /\ sheet_scraper = "newjersey"
    /\ Len(HandledRow) >= 14 /\ row_i > 0

NewRecordsOf(gen) == SelectSeq(NewSideRecords, LAMBDA r : r.gender = gen)

(***************************************************************************)
(* C19 as stated: every New Jersey data row gives one record per gender    *)
(* side, Women with the class of column 1 and Men with the class of        *)
(* column 8, each with the lifts of its columns +3, +4, +5.                *)
(***************************************************************************)
C19_EveryDataRowYieldsBothSides ==
    [][IsNewJerseyDataRowStep =>
          NewSideRecords = << SideRecord(HandledRow, 1, Women, Cell(HandledRow, 1)),
                              SideRecord(HandledRow, 8, Men, Cell(HandledRow, 8)) >>]_vars

(***************************************************************************)
(* C19: a New Jersey data row gives, for each side the tab has (Women at   *)
(* column 1 and Men at column 8; in the Masters 80 tab only Men, at column *)
(* 1), one record with the class of the side's first column and the lifts  *)
(* of its columns +3, +4, +5 when that cell is not blank, also when the    *)
(* entry is vacant (all lifts None); with a blank cell the side gives the  *)
(* record of the last closed class followed by "+", or none when there is  *)
(* no such class.                                                          *)
(***************************************************************************)
C19_DataRowYieldsItsSides ==
    [][IsNewJerseyDataRowStep =>
          \A gen \in {Men, Women} :
             LET col == WeightColumn(gen)
                 cell == Cell(HandledRow, col)
                 last == LastClosed(tab_state.records, gen)
             IN NewRecordsOf(gen) =
                   IF gen \notin SidesRead THEN << >>
                   ELSE IF cell # <<>> THEN << SideRecord(HandledRow, col, gen, cell) >>
                   ELSE IF Truthy(last) THEN << SideRecord(HandledRow, col, gen, last \o <<"+">>) >>
                   ELSE << >>]_vars

C19_Witness ==
    /\ sheet_scraper = "newjersey" /\ sheet_pc = "rows" /\ row_i = 2
    /\ Cell(rows[2], 1) = <<"8", "8">> /\ Cell(rows[2], 8) = <<"9", "4">>
    /\ tab_state.records =
          << MkRecord(wso_name, <<"S", "e", "n", "i", "o", "r">>, Women, <<"8", "8">>, None, None, None),
             MkRecord(wso_name, <<"S", "e", "n", "i", "o", "r">>, Men, <<"9", "4">>, 130, 160, 290) >>
(***************************************************************************)
(* C18: parse_age_subdivision turns a range "A-B", whatever the spaces     *)
(* around the hyphen and around the text, into "Masters A" when the tab's  *)
(* age category is Masters and into "UB" in every other tab; "35-39" in a  *)
(* Masters tab gives "Masters 35" and "14-15" in a Youth tab gives "U15".  *)
(***************************************************************************)
C18_RangeToLowerOrUpperBound ==
    (layout = "age" /\ parse_pc = "done") =>
        /\ \A p \in Paddings, a \in LowerAges, h \in Hyphens, b \in UpperAges :
              all_values[1][1] = p \o a \o h \o b \o p =>
                 scan.parsed = IF tab_age_category = <<"M", "a", "s", "t", "e", "r", "s">>
                               THEN <<"M", "a", "s", "t", "e", "r", "s", " ">> \o a
                               ELSE <<"U">> \o b
        /\ (all_values[1][1] = <<"3", "5", "-", "3", "9">> /\ tab_age_category = <<"M", "a", "s", "t", "e", "r", "s">>)
              => scan.parsed = <<"M", "a", "s", "t", "e", "r", "s", " ", "3", "5">>
        /\ (all_values[1][1] = <<"1", "4", "-", "1", "5">> /\ tab_age_category = <<"Y", "o", "u", "t", "h">>)
              => scan.parsed = <<"U", "1", "5">>

C18_Witness ==
    /\ layout = "age" /\ parse_pc = "done"
    /\ tab_age_category = <<"M", "a", "s", "t", "e", "r", "s">>
    /\ all_values[1][1] = <<" ", "3", "5", " ", "-", " ", "3", "9", " ">>
    /\ scan.parsed = <<"M", "a", "s", "t", "e", "r", "s", " ", "3", "5">>
LastTableRow == Last(Last(all_values'))

(* A row of the current table was handled by the loop body. *)
IsTableRowStep ==
    /\ layout = "table" /\ parse_pc = "scan"
    /\ Len(all_values') = Len(all_values)
    /\ Len(Last(all_values')) = Len(Last(all_values)) + 1

(* The slot a lift row writes, "" when the row is not a lift row. *)
LiftSlotOf(row) ==
    IF Len(row) < 6 THEN ""
    ELSE IF Contains(Strip(row[1]), <<"R", "e", "c", "o", "r", "d", "s">>) \/ Strip(row[1]) \in { <<"C", "l", "a", "s", "s">>, <<"L", "i", "f", "t">> } THEN ""
    ELSE IF Contains(row[2], <<"S", "n", "a", "t", "c", "h">>) THEN "current_snatch"
    ELSE IF Contains(row[2], <<"C", "&", "J">>) \/ Contains(row[2], <<"C", "l", "e", "a", "n">>) THEN "current_cj"
    ELSE IF Contains(row[2], <<"T", "o", "t", "a", "l">>) THEN "current_total"
    ELSE ""

(***************************************************************************)
(* C20: in the New England parser a lift row whose name cell is "Open" in  *)
(* any case leaves its slot absent whatever its value cell holds, and a    *)
(* lift row with any other name, "Standard" included, and a value cell     *)
(* holding a non-zero number sets its slot to that number.                 *)
(***************************************************************************)
C20_OpenIsAbsentStandardCounts ==
    [][(IsTableRowStep /\ LiftSlotOf(LastTableRow) # "") =>
          LET row == LastTableRow
              name == Strip(row[3])
              cell == Strip(row[6])
          IN /\ Lower(name) = <<"o", "p", "e", "n">> => scan'[LiftSlotOf(row)] = None
             /\ (Lower(name) # <<"o", "p", "e", "n">> /\ isdigit(cell) /\ ToNat(cell) # 0)
                   => scan'[LiftSlotOf(row)] = ToNat(cell)]_vars

C20_Witness ==
    /\ layout = "table" /\ parse_pc = "scan"
    /\ Len(Last(all_values)) = 3
    /\ \A k \in 1..3 : Len(Last(all_values)[k]) >= 6
    /\ Strip(Last(all_values)[2][3]) = <<"S", "t", "a", "n", "d", "a", "r", "d">>
    /\ Strip(Last(all_values)[3][3]) = <<"o", "p", "e", "n">>
    /\ scan.current_snatch = 95
    /\ scan.current_cj = None
(***************************************************************************)
(* C12: in every multi-tab scraper a tab whose fetch fails is the only     *)
(* thing lost: the run is never aborted by it, and the records of the      *)
(* other tabs are still returned.                                          *)
(***************************************************************************)
C12_FailedTabNeverAbortsTheRun == sheet_pc # "aborted"

(***************************************************************************)
(* C21: the PA/WV weight-class normalizer gives "<n>" for "<n>kg" and      *)
(* "<n>+" for every text with a "+" marker, leading ("+<n>kg") or trailing *)
(* ("<n>+", "<n>+kg"), so the marker of an open class is never lost.       *)
(***************************************************************************)
C21_PlusMarkerIsKept ==
    (layout = "weight" /\ parse_pc = "done") =>
        \A n \in WeightNumbers :
           /\ all_values[1][1] = n \o <<"k", "g">> => scan.parsed = n
           /\ all_values[1][1] = <<"+">> \o n \o <<"k", "g">> => scan.parsed = n \o <<"+">>
           /\ all_values[1][1] = n \o <<"+">> => scan.parsed = n \o <<"+">>
           /\ all_values[1][1] = n \o <<"+", "k", "g">> => scan.parsed = n \o <<"+">>

(* A row was handled by the loop of the vertical parser. *)
IsVerticalRowStep ==
    /\ layout = "vertical" /\ parse_pc = "scan" /\ parse_pc' = "scan"
    /\ Len(all_values') = Len(all_values) + 1

(* What the vertical parser takes the row at 0-based index i for. *)
RowKind(row, i) ==
    LET first == IF Len(row) > 0 THEN Lower(Strip(row[1])) ELSE <<>>
    IN IF first = <<>> THEN "skip"
       ELSE IF i = 0 /\ Contains(first, <<"l", "i", "f", "t">>) THEN "merged"
       ELSE IF first \in { <<"l", "i", "f", "t">>, <<"a", "t", "h", "l", "e", "t", "e">>, <<"t", "e", "a", "m">>, <<"w", "e", "i", "g", "h", "t">>, <<"d", "a", "t", "e">>, <<"m", "e", "e", "t">>, <<"l", "o", "c", "a", "t", "i", "o", "n">> }
       THEN "skip"
       ELSE IF first = <<"t", "o", "t", "a", "l">> THEN "total"
       ELSE IF first \in { <<"s", "n", "a", "t", "c", "h">>, <<"c", "l", "e", "a", "n", " ", "&", " ", "j", "e", "r", "k">>, <<"c", "l", "e", "a", "n", " ", "a", "n", "d", " ", "j", "e", "r", "k">>, <<"c", "&", "j">> } THEN "lift"
       ELSE IF Contains(first, <<"k", "g">>) THEN "kg"
       ELSE "other"

(* The number in column D of a row, None when there is none. *)
ColumnD(row) ==
    IF Len(row) > 3 /\ isdigit(Strip(row[4])) THEN ToNat(Strip(row[4])) ELSE None

BlockIsOpen == Truthy(scan.current_weight_class) /\ Truthy(scan.current_age_category)

LiftsCleared(st) ==
    st.current_snatch = None /\ st.current_cj = None /\ st.current_total = None

(***************************************************************************)
(* C22: in the vertical parser a Total row appends exactly one record,     *)
(* with the current age subdivision, weight class, pending snatch and C&J  *)
(* and the row's total, when weight class and age subdivision are both     *)
(* set, and none otherwise; either way the weight class and the three      *)
(* lift slots are cleared and the age subdivision stays.                   *)
(***************************************************************************)
C22_TotalRowCommits ==
    [][(IsVerticalRowStep /\ RowKind(Last(all_values'), Len(all_values)) = "total") =>
          /\ scan'.records =
                IF BlockIsOpen
                THEN Append(scan.records,
                            MkRecord(wso_name, scan.current_age_category, tab_gender,
                                     scan.current_weight_class, scan.current_snatch,
                                     scan.current_cj, ColumnD(Last(all_values'))))
                ELSE scan.records
          /\ scan'.current_weight_class = NoText
          /\ LiftsCleared(scan')
          /\ scan'.current_age_category = scan.current_age_category]_vars

C22_Witness ==
    /\ layout = "vertical" /\ parse_pc = "scan"
    /\ Len(all_values) = 4
    /\ RowKind(all_values[4], 3) = "total"
    /\ RowKind(all_values[3], 2) = "lift"
    /\ Len(scan.records) = 1
    /\ scan.records[1].total_record = 125 /\ scan.records[1].snatch_record = 55
    /\ scan.records[1].age_category = <<"U", "1", "3">>
    /\ scan.current_weight_class = NoText /\ scan.current_age_category = <<"U", "1", "3">>

(* The record of the open block, with the values pending in the slots. *)
PendingRecord ==
    MkRecord(wso_name, scan.current_age_category, tab_gender,
             scan.current_weight_class, scan.current_snatch, scan.current_cj,
             scan.current_total)

(***************************************************************************)
(* C23: in the vertical parser a weight-class block whose age subdivision  *)
(* is set and that no Total row committed is flushed, with the values      *)
(* pending in its slots, when the next kg row is read or when the input    *)
(* ends; the block the kg row opens starts with the three lift slots       *)
(* empty.                                                                  *)
(***************************************************************************)
C23_OpenBlockIsFlushed ==
    [][/\ (IsVerticalRowStep /\ RowKind(Last(all_values'), Len(all_values)) = "kg") =>
             /\ scan'.records = IF BlockIsOpen
                                THEN Append(scan.records, PendingRecord)
                                ELSE scan.records
             /\ scan'.current_weight_class = Strip(Last(all_values')[1])
             /\ LiftsCleared(scan')
       /\ (layout = "vertical" /\ parse_pc = "scan" /\ parse_pc' = "done") =>
             scan'.records = IF BlockIsOpen
                             THEN Append(scan.records, PendingRecord)
                             ELSE scan.records]_vars

C23_Witness ==
    /\ layout = "vertical" /\ parse_pc = "done"
    /\ Len(all_values) = 4
    /\ RowKind(all_values[1], 0) = "kg"
    /\ RowKind(all_values[2], 1) = "lift"
    /\ RowKind(all_values[3], 2) = "kg"
    /\ RowKind(all_values[4], 3) = "lift"
    /\ Len(scan.records) = 2
    /\ scan.records[1].snatch_record = 55 /\ scan.records[1].cj_record = None
    /\ scan.records[2].snatch_record = None /\ scan.records[2].cj_record = 70

(* The rows read so far that start a weight-class block: those whose first *)
(* cell holds "kg", which are the kg rows and a merged header in row 0     *)
(* that names a weight class (no header or lift word holds "kg").          *)
HoldsKg(cell) ==
    \E k \in 1..(Len(cell) - 1) : cell[k] \in { "k", "K" } /\ cell[k + 1] \in { "g", "G" }

WeightClassStarts ==
    { i \in 1..Len(all_values) : Len(all_values[i]) > 0 /\ HoldsKg(all_values[i][1]) }

(***************************************************************************)
(* C29: the vertical parser emits no weight-class block more than once:    *)
(* the records emitted by Total commits, kg flushes and the final flush    *)
(* never outnumber the weight-class starts read.                           *)
(***************************************************************************)
C29_AtMostOneRecordPerBlock ==
    layout = "vertical" => Len(scan.records) <= Cardinality(WeightClassStarts)

C29_Witness ==
    /\ layout = "vertical" /\ parse_pc = "done"
    /\ Len(all_values) = 5
    /\ RowKind(all_values[1], 0) = "kg"
    /\ RowKind(all_values[2], 1) = "lift"
    /\ RowKind(all_values[3], 2) = "total"
    /\ RowKind(all_values[4], 3) = "kg"
    /\ RowKind(all_values[5], 4) = "total"
    /\ Cardinality(WeightClassStarts) = 2
    /\ Len(scan.records) = 2

(* What scrape_tab takes a row of a PA/WV tab for. *)
PawvRowKind(row, gender_, base_age_category) ==
    LET first_col == Strip(row[1])
    IN IF Len(row) < 4 THEN "short"
       ELSE IF /\ Contains(first_col, <<"A", "g", "e", " ", "G", "r", "o", "u", "p">>) \/ Contains(first_col, <<"M", "a", "s", "t", "e", "r", "s">>)
               /\ \/ Contains(first_col, gender_)
                  \/ Contains(first_col, <<"M", "e", "n", "'", "s">>) \/ Contains(first_col, <<"W", "o", "m", "e", "n", "'", "s">>)
       THEN "section"
       ELSE IF /\ base_age_category \in { <<"J", "u", "n", "i", "o", "r">>, <<"S", "e", "n", "i", "o", "r">> }
               /\ \/ Contains(first_col, base_age_category \o <<" ">> \o gender_)
                  \/ Contains(first_col, <<"O", "p", "e", "n", " ">> \o gender_)
                  \/ Contains(first_col, gender_ \o <<"'", "s">>)
       THEN "label"
       ELSE IF EndsWith(first_col, <<"k", "g">>) \/ (StartsWith(first_col, <<"+">>) /\ Contains(first_col, <<"k", "g">>))
       THEN "weight"
       ELSE "other"

(* An age category is set when row k of the grid is read. *)
AgeCategoryIsSetAt(grid, k, gender_, base_age_category) ==
    \/ base_age_category \in { <<"J", "u", "n", "i", "o", "r">>, <<"S", "e", "n", "i", "o", "r">> }
    \/ \E j \in 1..(k - 1) :
          /\ PawvRowKind(grid[j], gender_, base_age_category) = "section"
          /\ Truthy(_normalize_age_category(Strip(grid[j][1]), base_age_category))

IsPawvTabStep ==
    /\ sheet_scraper = "pawv" /\ sheet_pc = "tabs" /\ sheet_pc' = "tabs"
    /\ tab_index' = tab_index + 1

(***************************************************************************)
(* C25: in PA/WV scrape_tab every weight-class header row read while an    *)
(* age category is set produces exactly one emitted record, the last       *)
(* weight class of an age section that another section header follows      *)
(* included: a tab yields as many records as it has such header rows.      *)
(***************************************************************************)
C25_EveryWeightClassHeaderIsEmitted ==
    [][IsPawvTabStep =>
          LET tab == PawvTabs[tab_index']
          IN Len(sheet_records') - Len(sheet_records) =
                Cardinality({ k \in 1..Len(rows') :
                                 /\ PawvRowKind(rows'[k], tab[1], tab[2]) = "weight"
                                 /\ AgeCategoryIsSetAt(rows', k, tab[1], tab[2]) })]_vars

(* The rows of the table being read. *)
CurrentTable == all_values[Len(all_values)]

(* The row is a section header that names an age category and a gender. *)
IsSectionRow(row) ==
    /\ Len(row) >= 2
    /\ Contains(Strip(row[1]), <<"R", "e", "c", "o", "r", "d", "s">>)
    /\ _parse_section_header(Strip(row[1])) # NoHeader

(* The row starts a weight class. *)
StartsWeightClass(row) ==
    /\ Len(row) >= 2
    /\ ~Contains(Strip(row[1]), <<"R", "e", "c", "o", "r", "d", "s">>)
    /\ Strip(row[1]) \notin { <<>>, <<"C", "l", "a", "s", "s">>, <<"L", "i", "f", "t">> }
    /\ isdigit(Remove(Remove(Strip(row[1]), "+"), " "))

(* The <<age category, gender>> of the section header that most recently   *)
(* precedes row k of the table.                                            *)
SectionBefore(table, k) ==
    LET headers == { j \in 1..(k - 1) : IsSectionRow(table[j]) }
    IN IF headers = {} THEN NoHeader
       ELSE _parse_section_header(Strip(table[Max(headers)][1]))

(***************************************************************************)
(* C26: every record the table parser emits carries the age category and   *)
(* the gender of the section header that most recently preceded the        *)
(* record's weight-class row, also when a second section header follows    *)
(* that row in the same table.                                             *)
(***************************************************************************)
C26_RecordCarriesItsSection ==
    [][(layout = "table" /\ Len(scan'.records) = Len(scan.records) + 1) =>
          LET class_rows == { k \in 1..Len(CurrentTable) : StartsWeightClass(CurrentTable[k]) }
              emitted == scan'.records[Len(scan'.records)]
          IN /\ class_rows # {}
             /\ << emitted.age_category, emitted.gender >> =
                   SectionBefore(CurrentTable, Max(class_rows))]_vars

(* The row reaches the store: it has an age group, a known gender, no      *)
(* adaptive marker, a weight class and a known lift type.                  *)
FlatRowIsFiled(row) ==
    /\ Strip(row[1]) # <<>>
    /\ Truthy(FlatGender(Strip(row[2])))
    /\ ~Contains(_normalize_age_group(Strip(row[1])), <<"A", "D", "A", "P">>)
    /\ Truthy(FlatWeightClass(Strip(row[3]), Strip(row[4])))
    /\ FlatLiftField(Strip(row[5])) # ""

(* The key a flat row files its value under. *)
FlatKey(row) ==
    << wso_name, _normalize_age_group(Strip(row[1])), FlatGender(Strip(row[2])),
       FlatWeightClass(Strip(row[3]), Strip(row[4])) >>

(***************************************************************************)
(* C30: in the flat parser a row writes its parsed value, absent included, *)
(* into the field its lift type names of the one record of its key, over   *)
(* whatever an earlier row of the same key and lift type left there (the   *)
(* last row wins, not the maximum); the record's other fields and the      *)
(* other records stay as they were, and there is exactly one record per    *)
(* key.                                                                    *)
(***************************************************************************)
C30_LastRowOfAKeyWins ==
    /\ [][(IsFlatRowStep /\ FlatRowIsFiled(Last(all_values'))) =>
            LET row == Last(all_values')
                field == FlatLiftField(Strip(row[5]))
                before == { k \in 1..Len(scan.grouped) : KeyOf(scan.grouped[k]) = FlatKey(row) }
                after == { k \in 1..Len(scan'.grouped) : KeyOf(scan'.grouped[k]) = FlatKey(row) }
            IN /\ Cardinality(after) = 1
               /\ \A k \in after :
                     /\ scan'.grouped[k][field] = ParseFloat(Strip(row[6]))
                     /\ \A f \in LiftFields \ { field } :
                           scan'.grouped[k][f] = IF k \in before THEN scan.grouped[k][f] ELSE None
               /\ \A k \in 1..Len(scan.grouped) :
                     k \notin after => scan'.grouped[k] = scan.grouped[k]]_vars
    /\ [](layout = "flat" => UniqueKeys(scan.grouped))
    /\ []((layout = "flat" /\ parse_pc = "done") => UniqueKeys(scan.records))

C30_Witness ==
    /\ layout = "flat" /\ parse_pc = "done"
    /\ Len(all_values) = 3
    /\ all_values[1] = ScenarioFlatRow
    /\ all_values[2] = << <<"M", "4", "0">>, <<"M">>, <<"8", "1">>, <<>>, <<"T", "o", "t", "a", "l">>, <<"2", "1", "5">> >>
    /\ all_values[3] = << <<"M", "4", "0">>, <<"M">>, <<"8", "1">>, <<>>, <<"s", "n", "a", "t", "c", "h">>, <<"9", "0">> >>
    /\ scan.records = << MkRecord(wso_name, <<"M", "a", "s", "t", "e", "r", "s", " ", "4", "0">>, <<"M", "e", "n">>, <<"8", "1", "+">>, 90, None, 215) >>

-----------------------------------------------------------------------------
(* Properties of a second reconciliation of the same batch (specification  *)
(* Spec).                                                                  *)

FreshLists == [inserted |-> << >>, updated |-> << >>]

Range(list) == { list[k] : k \in 1..Len(list) }

(* The loop of upsert_records and upsert_records as a whole agree on each  *)
(* record.                                                                 *)
UpsertStepAgreesWithWhole ==
    [][(pc = "reconcile" /\ ~dry_run /\ idx' = idx + 1) =>
          upsert_records(store, << records[idx] >>, FreshLists).store = store']_vars

(***************************************************************************)
(* C27: once upsert_records has gone through a scraped batch, going        *)
(* through the same batch again on the table it left issues no insert and  *)
(* no update and reports no inserted and no updated record.                *)
(***************************************************************************)
C27_SecondPassWritesNothing ==
    (pc = "done" /\ ~dry_run) =>
        LET again == upsert_records(store, records, FreshLists)
        IN /\ again.inserted = << >>
           /\ again.updated = << >>
           /\ again.store = store

(***************************************************************************)
(* C28: the dry-run comparison predicts the real run: the records it       *)
(* reports to insert and to update are exactly the records for which       *)
(* upsert_records, on the same batch and the same table, issues an insert  *)
(* and an update.                                                          *)
(***************************************************************************)
C28_DryRunPredictsTheRealRun ==
    (pc = "done" /\ dry_run) =>
        LET real == upsert_records(store, records, FreshLists)
        IN /\ Range(comparison.to_insert) = Range(real.inserted)
           /\ { entry.record : entry \in Range(comparison.to_update) } = Range(real.updated)

-----------------------------------------------------------------------------
(* Properties of the horizontal parser (specification SpecHorizontal).     *)

(* The number in cell c of a row, None when the cell is missing, empty or  *)
(* not a number.                                                           *)
ValueAt(row, c) ==
    IF c <= Len(row) /\ isdigit(Strip(row[c])) THEN ToNat(Strip(row[c])) ELSE None

(* The loop is at a section header: row h of the sheet names an age        *)
(* category and a gender.                                                  *)
AtSectionHeader ==
    /\ layout = "horizontal" /\ parse_pc = "scan"
    /\ scan.i < Len(all_values)
    /\ all_values[scan.i + 1] # << >>
    /\ all_values[scan.i + 1][1] # << >>
    /\ tnky_normalize_age_category(
           Strip(all_values[scan.i + 1][1]) \o <<" ">> \o Cell(all_values[scan.i + 1], 2)) # NoHeader

(* Its weight row: the header row when that holds KG tokens, else the next. *)
WeightRowOf(h) ==
    IF \E k \in 2..Min({ 9, Len(all_values[h]) }) : Contains(Upper(all_values[h][k]), <<"K", "G">>)
    THEN h ELSE h + 1

(***************************************************************************)
(* C24: in the horizontal parser a section header whose weight row w is    *)
(* followed by nine data rows yields, for each weight class detected at a  *)
(* column c of the weight row, exactly one record with the section's age   *)
(* category and gender and with the snatch, C&J and total found at column  *)
(* c of rows w+1, w+4 and w+7; the name and date rows supply no value.     *)
(***************************************************************************)
C24_ValuesComeFromTheClassColumn ==
    [][(AtSectionHeader /\ scan' # scan /\ WeightRowOf(scan.i + 1) + 9 <= Len(all_values)) =>
          LET h == scan.i + 1
              w == WeightRowOf(h)
              header == tnky_normalize_age_category(
                            Strip(all_values[h][1]) \o <<" ">> \o Cell(all_values[h], 2))
              weight_classes == _parse_weight_classes(all_values[w])
              columns == SelectSeq([k \in 1..Len(weight_classes) |-> k + 1],
                                   LAMBDA c : Truthy(weight_classes[c - 1]))
          IN scan'.records =
                scan.records \o
                [n \in 1..Len(columns) |->
                    MkRecord(wso_name, header[1], header[2], weight_classes[columns[n] - 1],
                             ValueAt(all_values[w + 1], columns[n]),
                             ValueAt(all_values[w + 4], columns[n]),
                             ValueAt(all_values[w + 7], columns[n]))]]_vars
====
